---- MODULE Spec2Model ----
(***************************************************************************)
(* Model of extract_components_from_text (gelotech_workers.py), the        *)
(* dumpsys component-token extractor, and of its callers.                  *)
(*                                                                         *)
(* A text is a sequence of one-character strings.  The four regular        *)
(* expressions of the extractor are modelled by what Python's backtracking *)
(* matcher does with them: a leftmost scan (findall) that, at each start   *)
(* position, takes the first alternative and the longest repetition that   *)
(* lets the rest of the pattern match, and resumes after the match.        *)
(***************************************************************************)
EXTENDS Integers, Sequences, FiniteSets, TLC

VARIABLES
    dumpsys_text,   \* the argument of the last call (before the first call:
                    \* the argument it will have)
    matches,        \* the local list matches at the end of the last call
    cleaned,        \* the local list cleaned at the end of the last call
    seen_lower,     \* the local set seen_lower at the end of the last call
    mapping,        \* the local dict mapping at the end of the last call
    result,         \* the value the last call returned
    outcome,        \* "idle" before the first call, then how the last call
                    \* ended: "returned" or "raised"
    repeated,       \* history: the last call had the argument of the call
                    \* before it
    \* concurrent callers of the extractor
    args,           \* caller -> the text it passes
    pc,             \* caller -> where its invocation stands
    frames,         \* frame -> the locals of the invocation that runs in it
    returns,        \* caller -> the mapping its invocation returned
    overlapped,     \* history: caller -> another caller took a step while
                    \* its invocation was running
    \* ServicesWorker
    sw_adb,         \* self.adb, the path of adb ("" when unset)
    sw_pc,          \* where run() stands
    sw_cmds,        \* history: the adb commands run() started, in order,
                    \* each with its state and its output
    sw_out,         \* the local out
    sw_calls,       \* history: the texts _extract_components was called on
    sw_mapping,     \* the local mapping
    sw_emitted,     \* history: the dicts emitted on the signal result
    sw_log,         \* history: the messages emitted on the signal log
    \* ScanAdsWorker
    sc_stop,        \* self._stop
    sc_pc,          \* where run() stands
    sc_lines,       \* the local lines
    sc_idx,         \* the local idx
    sc_dumps,       \* history: the 'pm dump' commands run() started, in
                    \* order, each with its package, state and output
    sc_results,     \* the local results
    sc_emitted,     \* history: the dicts emitted on the signal result
    sc_log,         \* history: the messages emitted on the signal log
    sc_progress,    \* history: the values emitted on the signal progress
    sc_stopped_at,  \* history: where run() stood and how many dumps it had
                    \* started when stop() was first called
    \* PHRemoverApp (ph_android_remover_singlefile.py)
    tk_dry_run,     \* self.dry_run
    tk_selected,    \* the checked packages, as _all_checked() lists them
    tk_threads,     \* the threads started by the buttons Preview Uninstall
                    \* and Execute Uninstall, in order, each with its locals
    tk_preview,     \* self.preview_commands
    tk_issued,      \* history: the adb commands _run was called on
    tk_toggled,     \* history: the dry-run checkbox has been clicked
    \* GeloTechApp, the services tab (gelotech_ui.py)
    ui_adb,         \* self.adb
    ui_status,      \* the text of self.status_label
    ui_rows,        \* the rows of self.services_table, <<package, component>>
    ui_current,     \* its current row, 0 for none (currentRow() = -1)
    ui_busy,        \* self.services_busy is visible
    ui_refresh_on,  \* self.btn_services_refresh is enabled
    ui_stop_on,     \* self.btn_services_stop is enabled
    ui_worker,      \* self.services_worker is not None
    ui_pc,          \* where the GUI thread stands in stop_selected_service
    ui_component,   \* its local component
    ui_delivered,   \* how many results of the worker the GUI has received
    ui_querying,    \* history: a worker was started, its result not received
    ui_overlapped,  \* history: a worker was started while another was
                    \* querying
    ui_issued,      \* history: the 'am stopservice' commands run
    ui_owed,        \* history: a command was run and refresh_services has
                    \* not been called since
    \* GeloTechApp, the ad scan (gelotech_ad_remover_Version4.py)
    app_adb,        \* self.adb
    app_rows,       \* the packages of self.apps_table and of
                    \* self.detector_table, in row order
    app_scan_on,    \* self.scan_btn ("Start Scan") is enabled
    app_stop_on,    \* self.scan_stop_btn ("Stop") is enabled
    app_progress,   \* the value of self.progress
    app_status,     \* the text of self.status_label
    app_flags,      \* the flagged rows of self.detector_table: package ->
                    \* the identifiers of its tooltip
    app_flagged,    \* the number shown by self.flagged_label
    app_scan_worker,\* self.scan_worker: the number of a worker, 0 for None
    app_workers,    \* the ScanAdsWorker objects created, in order, each
                    \* with its flag _stop and the locals of its run()
    app_queue,      \* the signals of the workers queued for the GUI thread
    app_last,       \* self.last_scan_results
    \* PHRemoverApp, the three app lists (ph_android_remover_singlefile.py)
    tr_rows,        \* tree -> its rows in order, each with the tuples values
                    \* and tags of the item and, as history, the name it
                    \* was inserted for
    tr_select_all   \* tree -> the BooleanVar of its "Select All" checkbox

extractorVars ==
    << dumpsys_text, matches, cleaned, seen_lower, mapping, result, outcome,
       repeated >>

concurrentVars == << args, pc, frames, returns, overlapped >>

servicesVars ==
    << sw_adb, sw_pc, sw_cmds, sw_out, sw_calls, sw_mapping, sw_emitted,
       sw_log >>

scanVars ==
    << sc_stop, sc_pc, sc_lines, sc_idx, sc_dumps, sc_results, sc_emitted,
       sc_log, sc_progress, sc_stopped_at >>

tkVars ==
    << tk_dry_run, tk_selected, tk_threads, tk_preview, tk_issued,
       tk_toggled >>

uiVars ==
    << ui_adb, ui_status, ui_rows, ui_current, ui_busy, ui_refresh_on,
       ui_stop_on, ui_worker, ui_pc, ui_component, ui_delivered, ui_querying,
       ui_overlapped, ui_issued, ui_owed >>

appVars ==
    << app_adb, app_rows, app_scan_on, app_stop_on, app_progress, app_status,
       app_flags, app_flagged, app_scan_worker, app_workers, app_queue,
       app_last >>

treeVars == << tr_rows, tr_select_all >>

vars ==
    << extractorVars, concurrentVars, servicesVars, scanVars, tkVars, uiVars,
       appVars, treeVars >>

\* The empty mapping {}.
EmptyMapping == [ pkg \in {} |-> <<>> ]

\* The variables of the single caller, where there is none.
ExtractorUnused ==
    /\ dumpsys_text = <<>>
    /\ matches = <<>>
    /\ cleaned = <<>>
    /\ seen_lower = {}
    /\ mapping = EmptyMapping
    /\ result = EmptyMapping
    /\ outcome = "idle"
    /\ repeated = FALSE

\* The variables of the concurrent callers, where there are none.
ConcurrentUnused ==
    /\ args = <<>>
    /\ pc = <<>>
    /\ frames = <<>>
    /\ returns = <<>>
    /\ overlapped = <<>>

\* The variables of ServicesWorker, where there is no such worker.
ServicesUnused ==
    /\ sw_adb = <<>>
    /\ sw_pc = "none"
    /\ sw_cmds = <<>>
    /\ sw_out = <<>>
    /\ sw_calls = <<>>
    /\ sw_mapping = <<>>
    /\ sw_emitted = <<>>
    /\ sw_log = <<>>

\* The variables of ScanAdsWorker, where there is no such worker.
ScanUnused ==
    /\ sc_stop = FALSE
    /\ sc_pc = "none"
    /\ sc_lines = <<>>
    /\ sc_idx = 0
    /\ sc_dumps = <<>>
    /\ sc_results = <<>>
    /\ sc_emitted = <<>>
    /\ sc_log = <<>>
    /\ sc_progress = <<>>
    /\ sc_stopped_at = <<>>

\* The variables of PHRemoverApp, where there is no such window.
TkUnused ==
    /\ tk_dry_run = FALSE
    /\ tk_selected = <<>>
    /\ tk_threads = <<>>
    /\ tk_preview = <<>>
    /\ tk_issued = {}
    /\ tk_toggled = FALSE

\* The variables of the services tab, where there is no such window.
UiUnused ==
    /\ ui_adb = <<>>
    /\ ui_status = ""
    /\ ui_rows = <<>>
    /\ ui_current = 0
    /\ ui_busy = FALSE
    /\ ui_refresh_on = FALSE
    /\ ui_stop_on = FALSE
    /\ ui_worker = FALSE
    /\ ui_pc = "none"
    /\ ui_component = <<>>
    /\ ui_delivered = 0
    /\ ui_querying = FALSE
    /\ ui_overlapped = FALSE
    /\ ui_issued = {}
    /\ ui_owed = FALSE

\* The variables of the ad scan, where there is no such window.
AppUnused ==
    /\ app_adb = <<>>
    /\ app_rows = <<>>
    /\ app_scan_on = FALSE
    /\ app_stop_on = FALSE
    /\ app_progress = 0
    /\ app_status = ""
    /\ app_flags = EmptyMapping
    /\ app_flagged = 0
    /\ app_scan_worker = 0
    /\ app_workers = <<>>
    /\ app_queue = <<>>
    /\ app_last = EmptyMapping

\* The variables of the app lists, where there is no such window.
TreeUnused ==
    /\ tr_rows = <<>>
    /\ tr_select_all = <<>>

\* What each process leaves alone: the variables of the others, and their
\* values.
exceptExtractor ==
    << concurrentVars, servicesVars, scanVars, tkVars, uiVars, appVars,
       treeVars >>

exceptConcurrent ==
    << extractorVars, servicesVars, scanVars, tkVars, uiVars, appVars,
       treeVars >>

exceptServices ==
    << extractorVars, concurrentVars, scanVars, tkVars, uiVars, appVars,
       treeVars >>

exceptScan ==
    << extractorVars, concurrentVars, servicesVars, tkVars, uiVars, appVars,
       treeVars >>

exceptTk ==
    << extractorVars, concurrentVars, servicesVars, scanVars, uiVars,
       appVars, treeVars >>

exceptUi ==
    << extractorVars, concurrentVars, servicesVars, scanVars, tkVars,
       appVars, treeVars >>

exceptApp ==
    << extractorVars, concurrentVars, servicesVars, scanVars, tkVars, uiVars,
       treeVars >>

exceptTree ==
    << extractorVars, concurrentVars, servicesVars, scanVars, tkVars, uiVars,
       appVars >>

exceptUiServices ==
    << extractorVars, concurrentVars, scanVars, tkVars, appVars, treeVars >>

OnlyExtractor ==
    /\ ConcurrentUnused
    /\ ServicesUnused
    /\ ScanUnused
    /\ TkUnused
    /\ UiUnused
    /\ AppUnused
    /\ TreeUnused

OnlyConcurrent ==
    /\ ExtractorUnused
    /\ ServicesUnused
    /\ ScanUnused
    /\ TkUnused
    /\ UiUnused
    /\ AppUnused
    /\ TreeUnused

OnlyServices ==
    /\ ExtractorUnused
    /\ ConcurrentUnused
    /\ ScanUnused
    /\ TkUnused
    /\ UiUnused
    /\ AppUnused
    /\ TreeUnused

OnlyScan ==
    /\ ExtractorUnused
    /\ ConcurrentUnused
    /\ ServicesUnused
    /\ TkUnused
    /\ UiUnused
    /\ AppUnused
    /\ TreeUnused

OnlyTk ==
    /\ ExtractorUnused
    /\ ConcurrentUnused
    /\ ServicesUnused
    /\ ScanUnused
    /\ UiUnused
    /\ AppUnused
    /\ TreeUnused

OnlyUi ==
    /\ ExtractorUnused
    /\ ConcurrentUnused
    /\ ServicesUnused
    /\ ScanUnused
    /\ TkUnused
    /\ AppUnused
    /\ TreeUnused

OnlyApp ==
    /\ ExtractorUnused
    /\ ConcurrentUnused
    /\ ServicesUnused
    /\ ScanUnused
    /\ TkUnused
    /\ UiUnused
    /\ TreeUnused

OnlyTree ==
    /\ ExtractorUnused
    /\ ConcurrentUnused
    /\ ServicesUnused
    /\ ScanUnused
    /\ TkUnused
    /\ UiUnused
    /\ AppUnused

\* ------------------------------------------------------------------------
\* Bounds of the model
\* ------------------------------------------------------------------------

\* An input text is the concatenation of at most MaxPieces pieces.
MaxPieces == 3

\* The first input of a process that calls more than once is the
\* concatenation of at most MaxRepeatPieces pieces.
MaxRepeatPieces == 2

\* The longest text of case variants, in pieces of CasePieces.
MaxCasePieces == 4

\* The longest text of suffixed tokens, in pieces of SuffixPieces.
MaxSuffixPieces == 4

\* The number of concurrent callers.
MaxCallers == 2

\* The longest output of 'pm list packages', in lines.
MaxLines == 2

\* The number of clicks on Preview Uninstall and Execute Uninstall.
MaxClicks == 2

\* The longest text with labels and brace groups, in pieces.
MaxScanPieces == 4

\* The number of scans started in the window.
MaxScans == 2


\* The pieces input texts are built from.  The one-character pieces are a
\* representative of every character class the patterns and the clean-up
\* distinguish; the longer ones are whole tokens, a label and brace groups,
\* so that texts with two tokens, a labelled token or a nested-class token
\* inside braces are among the inputs.
Pieces ==
    { <<"a">>, <<"B">>, <<"1">>, <<".">>, <<"$">>, <<"/">>, <<" ">>,
      <<"{">>, <<"}">>, <<":">>, <<";">>,
      <<"a", "/", "b">>, <<"a", "/", "B">>, <<"A", "/", "b">>,
      <<"A", "/", ".", "b", "$", "B">>,
      <<"{", "a", "/", "b", "}">>,
      <<"{", "a", "/", ".", "b", "$", "B", "}">>,
      <<"S", "e", "r", "v", "i", "c", "e", "=">> }

\* The absent input (Python's None).
None == << "None" >>

\* ------------------------------------------------------------------------
\* Characters
\* ------------------------------------------------------------------------

LowerLetters ==
    { "a", "b", "c", "d", "e", "f", "g", "h", "i", "j", "k", "l", "m",
      "n", "o", "p", "q", "r", "s", "t", "u", "v", "w", "x", "y", "z" }

UpperLetters ==
    { "A", "B", "C", "D", "E", "F", "G", "H", "I", "J", "K", "L", "M",
      "N", "O", "P", "Q", "R", "S", "T", "U", "V", "W", "X", "Y", "Z" }

Letters == LowerLetters \cup UpperLetters

Digits == { "0", "1", "2", "3", "4", "5", "6", "7", "8", "9" }

\* \w of the regular expressions, restricted to ASCII.
WordChars == Letters \cup Digits \cup { "_" }

\* \s of the regular expressions and the characters str.strip() removes.
Whitespace == { " ", "\n", "\t", "\r" }

\* The package characters of a pattern written without the dot.
PkgCharsNoDot == Letters \cup Digits \cup { "_" }

\* [A-Za-z0-9_\.] : the package part of a token.
PkgChars == Letters \cup Digits \cup { "_", "." }

\* The class characters of a pattern written without the nested-class marker.
ClsCharsNoDollar == Letters \cup Digits \cup { "_", "." }

\* [A-Za-z0-9_\.$] : the class part of a token.
ClsChars == PkgChars \cup { "$" }

\* The letters and the digits in code-point order.
UpperSeq ==
    << "A", "B", "C", "D", "E", "F", "G", "H", "I", "J", "K", "L", "M",
       "N", "O", "P", "Q", "R", "S", "T", "U", "V", "W", "X", "Y", "Z" >>

LowerSeq ==
    << "a", "b", "c", "d", "e", "f", "g", "h", "i", "j", "k", "l", "m",
       "n", "o", "p", "q", "r", "s", "t", "u", "v", "w", "x", "y", "z" >>

DigitSeq == << "0", "1", "2", "3", "4", "5", "6", "7", "8", "9" >>

\* The other characters a text of the model can hold, with their code points.
Punctuation ==
    [ c \in { "\t", "\n", "\r", " ", "$", ")", ",", ".", "/", ":", ";", "=",
              "_", "{", "}" } |->
        CASE c = "\t" -> 9   [] c = "\n" -> 10  [] c = "\r" -> 13
          [] c = " "  -> 32  [] c = "$"  -> 36  [] c = ")"  -> 41
          [] c = ","  -> 44  [] c = "."  -> 46  [] c = "/"  -> 47
          [] c = ":"  -> 58  [] c = ";"  -> 59  [] c = "="  -> 61
          [] c = "_"  -> 95  [] c = "{"  -> 123 [] c = "}"  -> 125 ]

\* The position of c in the sequence q.
IndexOf(q, c) == CHOOSE i \in 1..Len(q) : q[i] = c

\* ord(c): the code point of a character.
Ord ==
    [ c \in Letters \cup Digits \cup DOMAIN Punctuation |->
        IF c \in UpperLetters THEN 64 + IndexOf(UpperSeq, c)
        ELSE IF c \in LowerLetters THEN 96 + IndexOf(LowerSeq, c)
        ELSE IF c \in Digits THEN 47 + IndexOf(DigitSeq, c)
        ELSE Punctuation[c] ]

\* str.lower() on one character.
LowerChar ==
    [ c \in DOMAIN Ord |->
        IF c \in UpperLetters THEN LowerSeq[IndexOf(UpperSeq, c)] ELSE c ]

\* str.lower()
Lower(s) == [ i \in 1..Len(s) |-> LowerChar[s[i]] ]

\* Lexicographic comparison of two strings by code point: s < t in Python.
RECURSIVE StrLess(_, _)
StrLess(s, t) ==
    IF t = <<>> THEN FALSE
    ELSE IF s = <<>> THEN TRUE
    ELSE IF s[1] # t[1] THEN Ord[s[1]] < Ord[t[1]]
    ELSE StrLess(Tail(s), Tail(t))

\* ------------------------------------------------------------------------
\* The regular expressions (gelotech_workers.py lines 31-42)
\* ------------------------------------------------------------------------

\* Is position k of t a word character (\w)?  Outside the text: no.
IsWordAt(t, k) == k >= 1 /\ k <= Len(t) /\ t[k] \in WordChars

\* \b before position i of t (i in 1..Len(t)+1).
Boundary(t, i) == IsWordAt(t, i - 1) # IsWordAt(t, i)

\* The position after the longest run of characters of S that starts at i:
\* where a greedy S* started at i stops.
RECURSIVE RunEnd(_, _, _)
RunEnd(t, i, S) ==
    IF i <= Len(t) /\ t[i] \in S THEN RunEnd(t, i + 1, S) ELSE i

\* The largest position j in lo..hi before which \b holds, 0 if there is none:
\* where a greedy repetition that is followed by \b gives back to.
RECURSIVE LastBoundary(_, _, _)
LastBoundary(t, lo, hi) ==
    IF hi < lo THEN 0
    ELSE IF Boundary(t, hi) THEN hi
    ELSE LastBoundary(t, lo, hi - 1)

\* The class part  (?:\.[A-Za-z0-9_\.$]+|[A-Za-z0-9_\.$]+)  started at c and
\* followed by \b (patterns A and B): the end position (exclusive) of the
\* match, 0 if none.  The dot-prefixed alternative is tried first.
ClassEndAB(t, c) ==
    LET e == RunEnd(t, c, ClsChars)
        dotted == IF c <= Len(t) /\ t[c] = "." THEN LastBoundary(t, c + 2, e)
                  ELSE 0
    IN  IF dotted # 0 THEN dotted ELSE LastBoundary(t, c + 1, e)

\* The class part of pattern C, which no \b follows: the greedy repetition
\* keeps the whole run.
ClassEndC(t, c) ==
    LET e == RunEnd(t, c, ClsChars)
    IN  IF c <= Len(t) /\ t[c] = "." /\ e >= c + 2 THEN e
        ELSE IF e >= c + 1 THEN e
        ELSE 0

\* A class part of pattern D that no \b follows.
ClassEndDGreedy(t, c) == ClassEndC(t, c)

\* The class part  [A-Za-z0-9_\.$]+  of pattern D, followed by \b.
ClassEndD(t, c) == LastBoundary(t, c + 1, RunEnd(t, c, ClsChars))

\* A package part that may be empty,  [A-Za-z0-9_\.]*/
SlashAfterEmptyPkg(t, s) ==
    LET p == RunEnd(t, s, PkgChars)
    IN  IF p <= Len(t) /\ t[p] = "/" THEN p ELSE 0

\* The position of the "/" that ends the package part  [A-Za-z0-9_\.]+/
\* started at s, 0 if the pattern does not match there.  "/" is not a
\* package character, so only the longest run can be followed by it.
SlashAfterPkg(t, s) ==
    LET p == RunEnd(t, s, PkgChars)
    IN  IF p > s /\ p <= Len(t) /\ t[p] = "/" THEN p ELSE 0

\* pat_a.match at position s: the end (exclusive) of the token, 0 if none.
MatchA(t, s) ==
    LET p == SlashAfterPkg(t, s)
    IN  IF Boundary(t, s) /\ p # 0 THEN ClassEndAB(t, p + 1) ELSE 0

\* pat_d.match at position s.
MatchD(t, s) ==
    LET p == SlashAfterPkg(t, s)
    IN  IF Boundary(t, s) /\ p # 0 THEN ClassEndD(t, p + 1) ELSE 0

\* t[i..j-1]
Slice(t, i, j) == SubSeq(t, i, j - 1)

\* The matches of pat_a in t from position i on, as <<start, end>> (end
\* exclusive), in text order: leftmost first, the scan resuming where a
\* match ends.  FindAllA below lists their texts.
RECURSIVE SpansA(_, _)
SpansA(t, i) ==
    IF i > Len(t) THEN <<>>
    ELSE LET j == MatchA(t, i)
         IN  IF j # 0 THEN << << i, j >> >> \o SpansA(t, j)
             ELSE SpansA(t, i + 1)

\* pat_a.findall(t) from position i on: the tokens, in text order.
RECURSIVE FindAllA(_, _)
FindAllA(t, i) ==
    IF i > Len(t) THEN <<>>
    ELSE LET j == MatchA(t, i)
         IN  IF j # 0 THEN << Slice(t, i, j) >> \o FindAllA(t, j)
             ELSE FindAllA(t, i + 1)

\* The matches of pat_d in t from position i on.
RECURSIVE SpansD(_, _)
SpansD(t, i) ==
    IF i > Len(t) THEN <<>>
    ELSE LET j == MatchD(t, i)
         IN  IF j # 0 THEN << << i, j >> >> \o SpansD(t, j)
             ELSE SpansD(t, i + 1)

\* pat_d.findall(t) from position i on.
RECURSIVE FindAllD(_, _)
FindAllD(t, i) ==
    IF i > Len(t) THEN <<>>
    ELSE LET j == MatchD(t, i)
         IN  IF j # 0 THEN << Slice(t, i, j) >> \o FindAllD(t, j)
             ELSE FindAllD(t, i + 1)

\* The first position s in lo..hi where the token of pattern B matches
\* (\b, package, "/", class, \b), 0 if none: where the lazy  [^}]*?  stops.
RECURSIVE FirstTokenB(_, _, _)
FirstTokenB(t, lo, hi) ==
    IF lo > hi THEN 0
    ELSE IF MatchA(t, lo) # 0 THEN lo
    ELSE FirstTokenB(t, lo + 1, hi)

\* The position of the first "}" at or after i, Len(t) + 1 if there is none:
\* where a greedy  [^}]*  started at i stops.
RECURSIVE NextClose(_, _)
NextClose(t, i) ==
    IF i <= Len(t) /\ t[i] # "}" THEN NextClose(t, i + 1) ELSE i

\* The captured tokens of the matches of pat_b in t from position i on, as
\* <<start, end>>.  A match starts at a "{", skips as few non-"}" characters
\* as possible to a token, and runs on to the first "}" after the token; the
\* scan resumes after that "}".
RECURSIVE SpansB(_, _)
SpansB(t, i) ==
    IF i > Len(t) THEN <<>>
    ELSE LET close == NextClose(t, i + 1)
             s == IF t[i] = "{" /\ close <= Len(t)
                  THEN FirstTokenB(t, i + 1, close - 1) ELSE 0
         IN  IF s # 0
             THEN << << s, MatchA(t, s) >> >> \o SpansB(t, close + 1)
             ELSE SpansB(t, i + 1)

\* pat_b.findall(t) from position i on: the captured tokens.
RECURSIVE FindAllB(_, _)
FindAllB(t, i) ==
    IF i > Len(t) THEN <<>>
    ELSE LET close == NextClose(t, i + 1)
             s == IF t[i] = "{" /\ close <= Len(t)
                  THEN FirstTokenB(t, i + 1, close - 1) ELSE 0
         IN  IF s # 0
             THEN << Slice(t, s, MatchA(t, s)) >> \o FindAllB(t, close + 1)
             ELSE FindAllB(t, i + 1)

\* The label keywords of pattern C, in the order of the alternation.
Labels ==
    << << "c", "o", "m", "p", "o", "n", "e", "n", "t", "i", "n", "f", "o", ":" >>,
       << "s", "e", "r", "v", "i", "c", "e", "=" >>,
       << "s", "e", "r", "v", "i", "c", "e", "_", "n", "a", "m", "e", "=" >> >>

\* A label match that does not ignore case (no re.IGNORECASE).
LabelAtExact(t, i, l) ==
    /\ i + Len(l) - 1 <= Len(t)
    /\ \A k \in 1..Len(l) : t[i + k - 1] = l[k]

\* Does label l match t at position i, ignoring case (re.IGNORECASE)?
LabelAt(t, i, l) ==
    /\ i + Len(l) - 1 <= Len(t)
    /\ \A k \in 1..Len(l) : LowerChar[t[i + k - 1]] = l[k]

\* pat_c.match at position i: <<start, end>> of the captured token (end
\* exclusive), <<0, 0>> if none.
MatchC(t, i) ==
    LET ls == { k \in 1..Len(Labels) : LabelAt(t, i, Labels[k]) }
    IN  IF ls = {} THEN << 0, 0 >>
        ELSE LET l == Labels[CHOOSE k \in ls : \A m \in ls : k <= m]
                 s == RunEnd(t, i + Len(l), Whitespace)
                 p == SlashAfterPkg(t, s)
                 e == IF p # 0 THEN ClassEndC(t, p + 1) ELSE 0
             IN  IF e # 0 THEN << s, e >> ELSE << 0, 0 >>

\* The captured tokens of the matches of pat_c in t from position i on, as
\* <<start, end>>.
RECURSIVE SpansC(_, _)
SpansC(t, i) ==
    IF i > Len(t) THEN <<>>
    ELSE LET m == MatchC(t, i)
         IN  IF m[2] # 0 THEN << m >> \o SpansC(t, m[2])
             ELSE SpansC(t, i + 1)

\* pat_c.findall(t) from position i on: the captured tokens.
RECURSIVE FindAllC(_, _)
FindAllC(t, i) ==
    IF i > Len(t) THEN <<>>
    ELSE LET m == MatchC(t, i)
         IN  IF m[2] # 0 THEN << Slice(t, m[1], m[2]) >> \o FindAllC(t, m[2])
             ELSE FindAllC(t, i + 1)

\* ------------------------------------------------------------------------
\* extract_components_from_text (gelotech_workers.py lines 6-87)
\* ------------------------------------------------------------------------

\* str.rstrip(chars): drop the trailing characters that are in S.
RECURSIVE RStrip(_, _)
RStrip(s, S) ==
    IF s # <<>> /\ s[Len(s)] \in S THEN RStrip(SubSeq(s, 1, Len(s) - 1), S)
    ELSE s

\* str.lstrip(chars)
RECURSIVE LStrip(_, _)
LStrip(s, S) ==
    IF s # <<>> /\ s[1] \in S THEN LStrip(Tail(s), S) ELSE s

\* str.strip()
Strip(s) == LStrip(RStrip(s, Whitespace), Whitespace)

\* '/' in s
HasSlash(s) == \E i \in 1..Len(s) : s[i] = "/"

\* A guard that tests only for the empty string (dumpsys_text == "").
IsFalsyEmptyOnly(t) == t = <<>>

\* Line 20: "not dumpsys_text" holds of None and of the empty string.
IsFalsy(t) == t = None \/ t = <<>>

\* Lines 46-55, for one match m of a pattern: the list of the tokens it
\* appends to matches (none or one).
ScanToken(m) ==
    IF m = <<>> THEN <<>>
    ELSE LET token == RStrip(Strip(m), { ";", ",", ")" })
         IN  IF ~HasSlash(token) THEN <<>> ELSE << token >>

\* Concatenation of the ScanToken of every match of the list ms.
RECURSIVE ScanTokens(_)
ScanTokens(ms) ==
    IF ms = <<>> THEN <<>> ELSE ScanToken(Head(ms)) \o ScanTokens(Tail(ms))

\* A scan that runs the labelled pattern before the three others.
ScanPatternsLabelledFirst(t) ==
    ScanTokens(FindAllC(t, 1)) \o ScanTokens(FindAllA(t, 1))
        \o ScanTokens(FindAllB(t, 1)) \o ScanTokens(FindAllD(t, 1))

\* Lines 45-55: the value of matches after the loop over the four patterns.
ScanPatterns(t) ==
    ScanTokens(FindAllA(t, 1)) \o ScanTokens(FindAllB(t, 1))
        \o ScanTokens(FindAllC(t, 1)) \o ScanTokens(FindAllD(t, 1))

\* A substitution whose colon is optional, re.sub(r':?[0-9]+$', '', tok): it
\* drops the trailing digits of a token that has no suffix.
StripDigitSuffix(tok) ==
    LET cut == RStrip(tok, Digits)
    IN  IF Len(cut) < Len(tok) /\ cut # <<>> /\ cut[Len(cut)] = ":"
        THEN SubSeq(cut, 1, Len(cut) - 1)
        ELSE cut

\* Line 63: re.sub(r':[0-9]+$', '', tok).  "$" matches at the end of the
\* string and before a newline that ends it.
StripNumSuffix(tok) ==
    LET nl == IF tok # <<>> /\ tok[Len(tok)] = "\n" THEN 1 ELSE 0
        body == SubSeq(tok, 1, Len(tok) - nl)
        cut == RStrip(body, Digits)
        atEnd == RStrip(tok, Digits)
    IN  IF Len(atEnd) < Len(tok) /\ atEnd # <<>> /\ atEnd[Len(atEnd)] = ":"
        THEN SubSeq(atEnd, 1, Len(atEnd) - 1)
        ELSE IF nl = 1 /\ Len(cut) < Len(body) /\ cut # <<>> /\ cut[Len(cut)] = ":"
        THEN SubSeq(cut, 1, Len(cut) - 1) \o << "\n" >>
        ELSE tok

\* s.split('/', 1)[0]: the part left of the first "/" (all of s if none).
LeftOfSlash(s) ==
    IF HasSlash(s)
    THEN SubSeq(s, 1, (CHOOSE i \in 1..Len(s) :
                          s[i] = "/" /\ \A k \in 1..(i - 1) : s[k] # "/") - 1)
    ELSE s

\* s.split('/', 1)[1]: the part right of the first "/".
RightOfSlash(s) == SubSeq(s, Len(LeftOfSlash(s)) + 2, Len(s))

\* A search for a letter or a digit, [A-Za-z0-9], instead of a letter.
HasLetterOrDigit(s) == \E i \in 1..Len(s) : s[i] \in Letters \cup Digits

\* Line 69: re.search(r'[A-Za-z]', right)
HasLetter(s) == \E i \in 1..Len(s) : s[i] \in Letters

\* A deduplication key that keeps the letter case (key = tok).
DedupKeyExact(tok) == tok

\* Line 71: the deduplication key of a token.
DedupKey(tok) == Lower(tok)

\* A clean-up that keeps the lower-cased token (tok = tok.lower()).
CleanTokenLowered(m) ==
    LET tok == Lower(Strip(StripNumSuffix(m)))
    IN  IF tok = <<>> \/ ~HasSlash(tok) THEN <<>>
        ELSE IF ~HasLetter(RightOfSlash(tok)) THEN <<>>
        ELSE tok

\* Lines 63-70, for one element of matches: the token to keep, <<>> to skip it.
CleanToken(m) ==
    LET tok == Strip(StripNumSuffix(m))
    IN  IF tok = <<>> \/ ~HasSlash(tok) THEN <<>>
        ELSE IF ~HasLetter(RightOfSlash(tok)) THEN <<>>
        ELSE tok

\* Lines 61-75: the loop over matches from element i on, with the values of
\* cleaned and seen_lower before that element; the value is the pair after
\* the loop.
RECURSIVE PostProcess(_, _, _, _)
PostProcess(ms, i, cl, seen) ==
    IF i > Len(ms) THEN [ cleaned |-> cl, seen_lower |-> seen ]
    ELSE LET tok == CleanToken(ms[i])
         IN  IF tok = <<>> \/ DedupKey(tok) \in seen
             THEN PostProcess(ms, i + 1, cl, seen)
             ELSE PostProcess(ms, i + 1, Append(cl, tok),
                              seen \cup { DedupKey(tok) })

\* A grouping key that is lower-cased (pkg = tok.split('/', 1)[0].lower()).
PackageOfLowered(tok) == Lower(LeftOfSlash(tok))

\* Line 80: the package a token is filed under.
PackageOf(tok) == LeftOfSlash(tok)

\* The elements of a list.
Range(q) == { q[i] : i \in 1..Len(q) }

\* The sublist of the tokens of q filed under pkg, in the order of q.
RECURSIVE FilterPkg(_, _)
FilterPkg(q, pkg) ==
    IF q = <<>> THEN <<>>
    ELSE IF PackageOf(Head(q)) = pkg THEN << Head(q) >> \o FilterPkg(Tail(q), pkg)
    ELSE FilterPkg(Tail(q), pkg)

\* Lines 78-81: mapping.setdefault(pkg, []).append(tok) for every token of
\* cleaned: each package of a token maps to its tokens in the order of cleaned.
GroupByPackage(cl) ==
    [ pkg \in { PackageOf(tok) : tok \in Range(cl) } |-> FilterPkg(cl, pkg) ]

\* Insertion of x into the sorted list q, after the elements not greater.
RECURSIVE InsertSorted(_, _)
InsertSorted(q, x) ==
    IF q = <<>> THEN << x >>
    ELSE IF StrLess(x, Head(q)) THEN << x >> \o q
    ELSE << Head(q) >> \o InsertSorted(Tail(q), x)

\* A list left in the order of insertion (no sorted()).
SortedUnchanged(q) == q

\* sorted(q) for a list of strings.
RECURSIVE Sorted(_)
Sorted(q) ==
    IF q = <<>> THEN <<>>
    ELSE InsertSorted(Sorted(SubSeq(q, 1, Len(q) - 1)), q[Len(q)])

\* Lines 84-85: every list of the mapping replaced by its sorted copy.
SortLists(m) == [ pkg \in DOMAIN m |-> Sorted(m[pkg]) ]

\* Line 27: matches = []
NewMatches == <<>>

\* Line 59: cleaned = []
NewCleaned == <<>>

\* A seen_lower that outlives the call (a module-level set, never cleared).
StaleSeenLower == seen_lower

\* Line 60: seen_lower = set()
NewSeenLower == {}

\* ------------------------------------------------------------------------
\* Inputs
\* ------------------------------------------------------------------------

\* The texts that are concatenations of at most n pieces.
RECURSIVE TextsOf(_)
TextsOf(n) ==
    IF n = 0 THEN { <<>> }
    ELSE LET shorter == TextsOf(n - 1)
         IN  shorter \cup { x \o p : x \in shorter, p \in Pieces }

\* The arguments of a call: None and every text of at most MaxPieces pieces.
Inputs == { None } \cup TextsOf(MaxPieces)

\* The arguments of the first call of a process that calls more than once:
\* None and every text of at most MaxRepeatPieces pieces.
RepeatInputs == { None } \cup TextsOf(MaxRepeatPieces)

\* The arguments of a call that follows another, besides the same argument
\* again.
RecallInputs == { None, <<"a", "/", "b">>, <<"A", "/", "b">> }

\* ------------------------------------------------------------------------
\* The calls
\* ------------------------------------------------------------------------

\* Before the first call: its argument is chosen among the texts of S, no
\* local holds anything.
InitOn(S) ==
    /\ dumpsys_text \in S
    /\ matches = <<>>
    /\ cleaned = <<>>
    /\ seen_lower = {}
    /\ mapping = EmptyMapping
    /\ result = EmptyMapping
    /\ outcome = "idle"
    /\ repeated = FALSE
    /\ OnlyExtractor

Init == InitOn(Inputs)

\* One call extract_components_from_text(t), lines 20-87.  The locals a
\* call never assigns are left empty.
Call(t) ==
    /\ dumpsys_text' = t
    /\ IF IsFalsy(t)
       THEN \* lines 20-21: return {}
            /\ matches' = <<>>
            /\ cleaned' = <<>>
            /\ seen_lower' = {}
            /\ mapping' = EmptyMapping
            /\ result' = EmptyMapping
            /\ outcome' = "returned"
       ELSE IF t = None
       THEN \* line 46: pat.findall(None) raises TypeError
            /\ matches' = NewMatches
            /\ cleaned' = <<>>
            /\ seen_lower' = {}
            /\ mapping' = EmptyMapping
            /\ result' = result
            /\ outcome' = "raised"
       ELSE \* lines 27-87, each local from the ones assigned before it
            /\ matches' = NewMatches \o ScanPatterns(t)
            /\ \E post \in { PostProcess(matches', 1, NewCleaned, NewSeenLower) } :
                  /\ cleaned' = post.cleaned
                  /\ seen_lower' = post.seen_lower
            /\ mapping' = SortLists(GroupByPackage(cleaned'))
            /\ result' = mapping'
            /\ outcome' = "returned"

\* The first call of the process, on the argument chosen for it.
FirstCall ==
    /\ outcome = "idle"
    /\ Call(dumpsys_text)
    /\ repeated' = FALSE
    /\ UNCHANGED exceptExtractor

Next == FirstCall

\* A process that calls the extractor once.
Spec == Init /\ [][Next]_vars

\* A later call, after a call that returned: on the same input again or on
\* another one.
NextCall ==
    /\ outcome = "returned"
    /\ \E t \in { dumpsys_text } \cup RecallInputs : Call(t)
    /\ repeated' = (dumpsys_text' = dumpsys_text)
    /\ UNCHANGED exceptExtractor

InitRepeat == InitOn(RepeatInputs)

NextRepeat == FirstCall \/ NextCall

\* A process that calls the extractor again and again.
SpecRepeat == InitRepeat /\ [][NextRepeat]_vars

\* The texts that are concatenations of at most n pieces of P.
RECURSIVE TextsOver(_, _)
TextsOver(P, n) ==
    IF n = 0 THEN { <<>> }
    ELSE LET shorter == TextsOver(P, n - 1)
         IN  shorter \cup { x \o p : x \in shorter, p \in P }

\* Pieces of texts that hold one token in two casings, bare and labelled,
\* with a package part made of a dot.
CasePieces ==
    { << "S", "e", "r", "v", "i", "c", "e", "=" >>,
      << ".", "/", "B" >>, << ".", "/", "b" >>,
      << " ", "a", "/", "b" >>, << "a", "/", "b" >>, << "A", "/", "b" >>,
      << " " >> }

\* Pieces of texts that hold a token followed by a port-like suffix or by
\* punctuation.
SuffixPieces ==
    { << "a", "/", "b" >>, << "A", "/", ".", "b", "$", "B" >>, << "1" >>,
      << ":" >>, << ";" >>, << "," >>, << ")" >>, << " " >> }

\* Before the call of the process below: its argument is a text of one of
\* the two families above.
InitShapes ==
    InitOn(TextsOver(CasePieces, MaxCasePieces)
              \cup TextsOver(SuffixPieces, MaxSuffixPieces))

\* A process that calls the extractor once, on a text of the two families
\* above.
SpecShapes == InitShapes /\ [][Next]_vars

\* Pieces of texts that hold the three labels of pattern C in several letter
\* cases, tokens in two casings, a token only a label introduces, and brace
\* groups with several tokens.
ScanPieces ==
    { << "S", "e", "r", "v", "i", "c", "e", "=" >>,
      << "S", "E", "R", "V", "I", "C", "E", "_", "n", "a", "m", "e", "=" >>,
      << "c", "o", "m", "p", "o", "n", "e", "n", "t", "I", "N", "F", "O", ":" >>,
      << " ", "a", "/", "b" >>, << "A", "/", "b" >>, << ".", "/", "b" >>,
      << "{" >>, << "}" >> }

\* Before the call of the process below: its argument is a text of the
\* family above.
InitScans == InitOn(TextsOver(ScanPieces, MaxScanPieces))

\* A process that calls the extractor once, on a text of the family above.
SpecScans == InitScans /\ [][Next]_vars

\* ------------------------------------------------------------------------
\* Concurrent callers
\* ------------------------------------------------------------------------

\* The callers: threads that invoke the extractor at the same time, each
\* once.
Callers == 1..MaxCallers

\* The texts the concurrent callers pass: the empty text, one token, one
\* token in two casings.
ConcurrentInputs ==
    { <<>>, << "A", "/", "b" >>, << "a", "/", "b", " ", "A", "/", "b" >> }

\* One frame for all the invocations, as if the names of the function were
\* module-level names.
SharedFrame(th) == 1

\* The frame that holds the locals of the invocation of caller th: every
\* invocation gets a frame of its own (line 6, a def without global or
\* nonlocal names, default arguments or attributes).
FrameOf(th) == th

\* The locals of a frame before any assignment.  i is the position of the
\* iterator of the loop of line 61.
NoLocals ==
    [ dumpsys_text |-> <<>>, matches |-> <<>>, cleaned |-> <<>>,
      seen_lower |-> {}, i |-> 0, mapping |-> EmptyMapping ]

\* What one sequential call on t returns, lines 20-87 (t a string).
Extract(t) ==
    IF IsFalsy(t) THEN EmptyMapping
    ELSE SortLists(GroupByPackage(
            PostProcess(NewMatches \o ScanPatterns(t), 1,
                        NewCleaned, NewSeenLower).cleaned))

InitConcurrent ==
    /\ args \in [ Callers -> ConcurrentInputs ]
    /\ pc = [ th \in Callers |-> "call" ]
    /\ frames = [ f \in Callers |-> NoLocals ]
    /\ returns = [ th \in Callers |-> EmptyMapping ]
    /\ overlapped = [ th \in Callers |-> FALSE ]
    /\ OnlyConcurrent

\* Caller th takes a step from label from to label to: the other callers
\* whose invocation is running have been overlapped.
Step(th, from, to) ==
    /\ pc[th] = from
    /\ pc' = [ pc EXCEPT ![th] = to ]
    /\ overlapped' =
          [ o \in Callers |->
              overlapped[o] \/ (o # th /\ pc[o] \notin { "call", "returned" }) ]
    /\ UNCHANGED << args, exceptConcurrent >>

\* Line 6: the invocation is entered, its parameter bound to the argument.
Enter(th) ==
    /\ Step(th, "call", "guard")
    /\ frames' = [ frames EXCEPT ![FrameOf(th)].dumpsys_text = args[th] ]
    /\ UNCHANGED returns

\* Lines 20-21: return {} on a falsy text.
GuardReturn(th) ==
    /\ IsFalsy(frames[FrameOf(th)].dumpsys_text)
    /\ Step(th, "guard", "returned")
    /\ returns' = [ returns EXCEPT ![th] = EmptyMapping ]
    /\ UNCHANGED frames

\* Lines 20-27: a text that passes the guard, then matches = [].
GuardPass(th) ==
    /\ ~IsFalsy(frames[FrameOf(th)].dumpsys_text)
    /\ Step(th, "guard", "scan")
    /\ frames' = [ frames EXCEPT ![FrameOf(th)].matches = NewMatches ]
    /\ UNCHANGED returns

\* Lines 45-55: the loop over the four patterns.
Scan(th) ==
    /\ Step(th, "scan", "post")
    /\ frames' = [ frames EXCEPT ![FrameOf(th)].matches =
                      @ \o ScanPatterns(frames[FrameOf(th)].dumpsys_text) ]
    /\ UNCHANGED returns

\* Lines 59-61: cleaned = [], seen_lower = set(), the loop starts.
StartPost(th) ==
    /\ Step(th, "post", "loop")
    /\ frames' = [ frames EXCEPT ![FrameOf(th)].cleaned = NewCleaned,
                                 ![FrameOf(th)].seen_lower = NewSeenLower,
                                 ![FrameOf(th)].i = 1 ]
    /\ UNCHANGED returns

\* Lines 61-75: one iteration of the loop over matches.
LoopBody(th) ==
    LET fr == frames[FrameOf(th)]
        post == PostProcess(<< fr.matches[fr.i] >>, 1, fr.cleaned, fr.seen_lower)
    IN  /\ fr.i <= Len(fr.matches)
        /\ Step(th, "loop", "loop")
        /\ frames' = [ frames EXCEPT ![FrameOf(th)].cleaned = post.cleaned,
                                     ![FrameOf(th)].seen_lower = post.seen_lower,
                                     ![FrameOf(th)].i = @ + 1 ]
        /\ UNCHANGED returns

\* Lines 61, 78-81: the loop is over, the tokens are grouped by package.
Group(th) ==
    /\ frames[FrameOf(th)].i > Len(frames[FrameOf(th)].matches)
    /\ Step(th, "loop", "sort")
    /\ frames' = [ frames EXCEPT ![FrameOf(th)].mapping =
                      GroupByPackage(frames[FrameOf(th)].cleaned) ]
    /\ UNCHANGED returns

\* Lines 84-85: every list is sorted.
SortStep(th) ==
    /\ Step(th, "sort", "return")
    /\ frames' = [ frames EXCEPT ![FrameOf(th)].mapping = SortLists(@) ]
    /\ UNCHANGED returns

\* Line 87: return mapping.
Return(th) ==
    /\ Step(th, "return", "returned")
    /\ returns' = [ returns EXCEPT ![th] = frames[FrameOf(th)].mapping ]
    /\ UNCHANGED frames

NextConcurrent ==
    \E th \in Callers :
       \/ Enter(th)
       \/ GuardReturn(th)
       \/ GuardPass(th)
       \/ Scan(th)
       \/ StartPost(th)
       \/ LoopBody(th)
       \/ Group(th)
       \/ SortStep(th)
       \/ Return(th)

\* Callers that invoke the extractor at the same time, their steps
\* interleaved in any order.
SpecConcurrent == InitConcurrent /\ [][NextConcurrent]_vars

\* ------------------------------------------------------------------------
\* ServicesWorker.run (gelotech_workers.py lines 181-204)
\* ------------------------------------------------------------------------

\* The texts a command can write to stdout or to stderr: nothing, whitespace
\* only, a bare token, a labelled token.
CommandTexts ==
    { <<>>, << " ", "\n" >>, << "a", "/", "b" >>,
      << "S", "e", "r", "v", "i", "c", "e", "=", "A", "/", "b" >> }

\* a or b, of two strings: a unless it is empty.
Or(a, b) == IF a # <<>> THEN a ELSE b

\* Lines 191, 197: (p.stdout or p.stderr or "")
OutputOf(stdout, stderr) == Or(Or(stdout, stderr), <<>>)

\* A test for the empty string alone (not out).
NeedsFallbackEmptyOnly(out) == out = <<>>

\* Line 192: not out.strip()
NeedsFallback(out) == Strip(out) = <<>>

\* A handler that logs the error and emits nothing.
EmitOnErrorNothing(emitted) == emitted

\* Line 204, in the handler: self.result.emit(results), results being the
\* empty dict of line 182.
EmitOnError(emitted) == Append(emitted, EmptyMapping)

\* The entry of sw_cmds for the command cmd, just started.
Started(cmd) ==
    [ cmd |-> cmd, state |-> "running", stdout |-> <<>>, stderr |-> <<>> ]

\* The last command of cmds, ended in state st with the outputs stdout and
\* stderr.
EndLast(cmds, st, stdout, stderr) ==
    [ cmds EXCEPT ![Len(cmds)] =
        [ @ EXCEPT !.state = st, !.stdout = stdout, !.stderr = stderr ] ]

InitServices ==
    /\ sw_adb \in { <<>>, << "a", "d", "b" >> }
    /\ sw_pc = "start"
    /\ sw_cmds = <<>>
    /\ sw_out = <<>>
    /\ sw_calls = <<>>
    /\ sw_mapping = EmptyMapping
    /\ sw_emitted = <<>>
    /\ sw_log = <<>>
    /\ OnlyServices

\* Lines 182-186: the adb path is not set.
SwNoAdb ==
    /\ sw_pc = "start"
    /\ sw_adb = <<>>
    /\ sw_log' = Append(sw_log, "ADB path not set")
    /\ sw_emitted' = Append(sw_emitted, EmptyMapping)
    /\ sw_pc' = "done"
    /\ UNCHANGED << sw_adb, sw_cmds, sw_out, sw_calls, sw_mapping >>
    /\ UNCHANGED exceptServices

\* Lines 182-189: the adb path is set, the primary command is started.
SwStartPrimary ==
    /\ sw_pc = "start"
    /\ sw_adb # <<>>
    /\ sw_log' = Append(sw_log, "Querying running services")
    /\ sw_cmds' = Append(sw_cmds, Started("dumpsys activity services"))
    /\ sw_pc' = "primary"
    /\ UNCHANGED << sw_adb, sw_out, sw_calls, sw_mapping, sw_emitted >>
    /\ UNCHANGED exceptServices

\* Lines 189-195: the primary command completes; on an output that is empty
\* once stripped, the fallback command is started.
SwPrimaryCompletes ==
    /\ sw_pc = "primary"
    /\ \E stdout, stderr \in CommandTexts :
          LET out == OutputOf(stdout, stderr)
              cmds == EndLast(sw_cmds, "completed", stdout, stderr)
          IN  /\ sw_out' = out
              /\ IF NeedsFallback(out)
                 THEN /\ sw_log' = Append(sw_log, "Empty dumpsys output")
                      /\ sw_cmds' = Append(cmds, Started("service list"))
                      /\ sw_pc' = "fallback"
                 ELSE /\ sw_log' = sw_log
                      /\ sw_cmds' = cmds
                      /\ sw_pc' = "extract"
    /\ UNCHANGED << sw_adb, sw_calls, sw_mapping, sw_emitted >>
    /\ UNCHANGED exceptServices

\* Lines 195-197: the fallback command completes.
SwFallbackCompletes ==
    /\ sw_pc = "fallback"
    /\ \E stdout, stderr \in CommandTexts :
          /\ sw_out' = OutputOf(stdout, stderr)
          /\ sw_cmds' = EndLast(sw_cmds, "completed", stdout, stderr)
    /\ sw_pc' = "extract"
    /\ UNCHANGED << sw_adb, sw_calls, sw_mapping, sw_emitted, sw_log >>
    /\ UNCHANGED exceptServices

\* Lines 189, 195, 202-204: subprocess.run raises (TimeoutExpired, a missing
\* or non-executable adb); the handler logs and emits results.
SwCommandRaises ==
    /\ sw_pc \in { "primary", "fallback" }
    /\ sw_cmds' = EndLast(sw_cmds, "raised", <<>>, <<>>)
    /\ sw_log' = Append(sw_log, "Services query error")
    /\ sw_emitted' = EmitOnError(sw_emitted)
    /\ sw_pc' = "done"
    /\ UNCHANGED << sw_adb, sw_out, sw_calls, sw_mapping >>
    /\ UNCHANGED exceptServices

\* Lines 177-179: what _extract_components returns on each text a command
\* can print.
ExtractedFrom == [ t \in CommandTexts |-> Extract(t) ]

\* Line 199: mapping = self._extract_components(out)
SwExtract ==
    /\ sw_pc = "extract"
    /\ sw_calls' = Append(sw_calls, sw_out)
    /\ sw_mapping' = ExtractedFrom[sw_out]
    /\ sw_pc' = "emit"
    /\ UNCHANGED << sw_adb, sw_cmds, sw_out, sw_emitted, sw_log >>
    /\ UNCHANGED exceptServices

\* Lines 200-201: the count is logged, mapping is emitted.
SwEmit ==
    /\ sw_pc = "emit"
    /\ sw_log' = Append(sw_log, "Found services")
    /\ sw_emitted' = Append(sw_emitted, sw_mapping)
    /\ sw_pc' = "done"
    /\ UNCHANGED << sw_adb, sw_cmds, sw_out, sw_calls, sw_mapping >>
    /\ UNCHANGED exceptServices

NextServices ==
    \/ SwNoAdb
    \/ SwStartPrimary
    \/ SwPrimaryCompletes
    \/ SwFallbackCompletes
    \/ SwCommandRaises
    \/ SwExtract
    \/ SwEmit

\* One execution of ServicesWorker.run.
SpecServices == InitServices /\ [][NextServices]_vars

\* ------------------------------------------------------------------------
\* ScanAdsWorker.run (gelotech_workers.py lines 123-158, and the same code
\* in gelotech_ad_remover_Version4.py lines 108-145)
\* ------------------------------------------------------------------------

\* self.ad_identifiers: the configured identifiers, here Sdk and Ad.
AdIdentifiers == << << "S", "d", "k" >>, << "A", "d" >> >>

\* The lines 'pm list packages -f' can print: a blank line, a line with a
\* path and "=" whose package holds "ad", a line without "=" whose package
\* holds "sdk", a line whose path holds "ad" and whose package does not.
ListingLines ==
    { << " " >>,
      << "p", "a", "c", "k", "a", "g", "e", ":", "/", "b", "=", "c", ".",
         "a", "d" >>,
      << " ", "p", "a", "c", "k", "a", "g", "e", ":", "s", "d", "k" >>,
      << "p", "a", "c", "k", "a", "g", "e", ":", "/", "A", "d", "=", "B" >> }

\* The outputs of 'pm list packages -f', split in lines.
Listings == UNION { [ 1..n -> ListingLines ] : n \in 0..MaxLines }

\* What 'pm dump' can write to stdout and to stderr.
DumpStdouts == { <<>>, << "a", "d", " ", "S", "D", "K" >> }

DumpStderrs == { <<>>, << "a", "d", "s" >> }

\* sub in s
Contains(s, sub) ==
    \E i \in 1..(Len(s) - Len(sub) + 1) : SubSeq(s, i, i + Len(sub) - 1) = sub

\* s.replace(sub, ""), sub not empty.
RECURSIVE RemoveAll(_, _)
RemoveAll(s, sub) ==
    IF Len(s) < Len(sub) THEN s
    ELSE IF SubSeq(s, 1, Len(sub)) = sub
    THEN RemoveAll(SubSeq(s, Len(sub) + 1, Len(s)), sub)
    ELSE << s[1] >> \o RemoveAll(Tail(s), sub)

\* Line 129: the lines of the output, stripped, without the blank ones.
RECURSIVE StripLines(_)
StripLines(raw) ==
    IF raw = <<>> THEN <<>>
    ELSE IF Strip(Head(raw)) = <<>> THEN StripLines(Tail(raw))
    ELSE << Strip(Head(raw)) >> \o StripLines(Tail(raw))

\* Line 135: ln.split("=", 1)[-1] if "=" in ln else ln.replace("package:", "")
PkgOfLine(ln) ==
    IF \E i \in 1..Len(ln) : ln[i] = "="
    THEN SubSeq(ln, (CHOOSE i \in 1..Len(ln) :
                        ln[i] = "=" /\ \A k \in 1..(i - 1) : ln[k] # "=") + 1,
                Len(ln))
    ELSE RemoveAll(ln, << "p", "a", "c", "k", "a", "g", "e", ":" >>)

\* Lines 141-143, 148-150: the identifiers whose lower case occurs in text.
IdentsIn(text) ==
    { AdIdentifiers[k] : k \in { j \in 1..Len(AdIdentifiers) :
                                   Contains(text, Lower(AdIdentifiers[j])) } }

\* A listing line that is checked whatever the dump gave.
CheckListingAlways(found) == TRUE

\* Line 146: if not matches
CheckListing(found) == found = {}

\* Lines 136-150: the set matches for the line ln of package pkg, after a
\* dump that ended in state st with the outputs stdout and stderr.  A dump
\* that raised leaves matches empty (lines 144-145).
MatchesOf(ln, pkg, st, stdout, stderr) ==
    LET fromDump == IF st = "completed"
                    THEN IdentsIn(Lower(OutputOf(stdout, stderr)))
                    ELSE {}
    IN  IF CheckListing(fromDump)
        THEN fromDump \cup IdentsIn(Lower(ln) \o << " " >> \o Lower(pkg))
        ELSE fromDump

\* sorted(S) for a set of strings.
RECURSIVE SortedOfSet(_)
SortedOfSet(S) ==
    IF S = {} THEN <<>>
    ELSE LET m == CHOOSE x \in S : \A y \in S : x = y \/ StrLess(x, y)
         IN  << m >> \o SortedOfSet(S \ { m })

\* Line 152: results[pkg] = sorted(matches)
Assign(results, pkg, found) ==
    [ k \in DOMAIN results \cup { pkg } |->
        IF k = pkg THEN SortedOfSet(found) ELSE results[k] ]

\* A flag that the loop never looks at.
CancelNeverSeen(stop) == FALSE

\* Line 132: if self._stop
CancelSeen(stop) == stop

\* A handler that logs the error and emits nothing.
EmitOnScanErrorNothing(emitted, results) == emitted

\* Line 158, in the handler: self.result.emit(results)
EmitOnScanError(emitted, results) == Append(emitted, results)

\* Line 154: int(idx / total * 100), total = max(1, len(lines)).  The float
\* quotient rounds to the integer one for the totals of the model.
ProgressOf(idx, lines) ==
    (idx * 100) \div (IF Len(lines) > 1 THEN Len(lines) ELSE 1)

InitScan ==
    /\ sc_stop = FALSE
    /\ sc_pc = "start"
    /\ sc_lines = <<>>
    /\ sc_idx = 0
    /\ sc_dumps = <<>>
    /\ sc_results = EmptyMapping
    /\ sc_emitted = <<>>
    /\ sc_log = <<>>
    /\ sc_progress = <<>>
    /\ sc_stopped_at = <<>>
    /\ OnlyScan

\* Lines 120-121: stop(), called from the thread of the interface at any
\* time.  A second call changes nothing.
ScStop ==
    /\ ~sc_stop
    /\ sc_stop' = TRUE
    /\ sc_stopped_at' = << [ pc |-> sc_pc, dumps |-> Len(sc_dumps) ] >>
    /\ UNCHANGED << sc_pc, sc_lines, sc_idx, sc_dumps, sc_results,
                    sc_emitted, sc_log, sc_progress >>
    /\ UNCHANGED exceptScan

\* Lines 124-128: the listing command is started.
ScStartListing ==
    /\ sc_pc = "start"
    /\ sc_log' = Append(sc_log, "Scanning packages...")
    /\ sc_pc' = "listing"
    /\ UNCHANGED << sc_stop, sc_lines, sc_idx, sc_dumps, sc_results,
                    sc_emitted, sc_progress, sc_stopped_at >>
    /\ UNCHANGED exceptScan

\* Lines 127-131: the listing command completes.
ScListingCompletes ==
    /\ sc_pc = "listing"
    /\ \E raw \in Listings : sc_lines' = StripLines(raw)
    /\ sc_pc' = "loop"
    /\ UNCHANGED << sc_stop, sc_idx, sc_dumps, sc_results, sc_emitted,
                    sc_log, sc_progress, sc_stopped_at >>
    /\ UNCHANGED exceptScan

\* Lines 127, 156-158: the listing command raises.
ScListingRaises ==
    /\ sc_pc = "listing"
    /\ sc_log' = Append(sc_log, "Scan error")
    /\ sc_emitted' = EmitOnScanError(sc_emitted, sc_results)
    /\ sc_pc' = "done"
    /\ UNCHANGED << sc_stop, sc_lines, sc_idx, sc_dumps, sc_results,
                    sc_progress, sc_stopped_at >>
    /\ UNCHANGED exceptScan

\* Lines 131, 155: no line is left, results is emitted.
ScFinish ==
    /\ sc_pc = "loop"
    /\ sc_idx >= Len(sc_lines)
    /\ sc_emitted' = Append(sc_emitted, sc_results)
    /\ sc_pc' = "done"
    /\ UNCHANGED << sc_stop, sc_lines, sc_idx, sc_dumps, sc_results, sc_log,
                    sc_progress, sc_stopped_at >>
    /\ UNCHANGED exceptScan

\* Lines 131-134, 155: a line is left and the flag is set: the loop is
\* left, results is emitted.
ScCancel ==
    /\ sc_pc = "loop"
    /\ sc_idx < Len(sc_lines)
    /\ CancelSeen(sc_stop)
    /\ sc_log' = Append(sc_log, "Scan cancelled.")
    /\ sc_emitted' = Append(sc_emitted, sc_results)
    /\ sc_pc' = "done"
    /\ UNCHANGED << sc_stop, sc_lines, sc_idx, sc_dumps, sc_results,
                    sc_progress, sc_stopped_at >>
    /\ UNCHANGED exceptScan

\* Lines 131-139: a line is left and the flag is not set: the dump of its
\* package is started.
ScStartDump ==
    /\ sc_pc = "loop"
    /\ sc_idx < Len(sc_lines)
    /\ ~CancelSeen(sc_stop)
    /\ sc_idx' = sc_idx + 1
    /\ sc_dumps' = Append(sc_dumps,
                          [ pkg |-> PkgOfLine(sc_lines[sc_idx']),
                            state |-> "running",
                            stdout |-> <<>>, stderr |-> <<>> ])
    /\ sc_pc' = "dump"
    /\ UNCHANGED << sc_stop, sc_lines, sc_results, sc_emitted, sc_log,
                    sc_progress, sc_stopped_at >>
    /\ UNCHANGED exceptScan

\* Lines 140-154: the rest of the iteration, after a dump that ended in
\* state st with the outputs stdout and stderr.
AfterDump(st, stdout, stderr) ==
    LET ln == sc_lines[sc_idx]
        pkg == PkgOfLine(ln)
        found == MatchesOf(ln, pkg, st, stdout, stderr)
    IN  /\ sc_dumps' = EndLast(sc_dumps, st, stdout, stderr)
        /\ IF found # {}
           THEN /\ sc_results' = Assign(sc_results, pkg, found)
                /\ sc_log' = Append(sc_log, "match")
           ELSE UNCHANGED << sc_results, sc_log >>
        /\ sc_progress' = Append(sc_progress, ProgressOf(sc_idx, sc_lines))
        /\ sc_pc' = "loop"
        /\ UNCHANGED << sc_stop, sc_lines, sc_idx, sc_emitted, sc_stopped_at >>
        /\ UNCHANGED exceptScan

\* Lines 138-154: the dump completes.
ScDumpCompletes ==
    /\ sc_pc = "dump"
    /\ \E stdout \in DumpStdouts, stderr \in DumpStderrs :
          AfterDump("completed", stdout, stderr)

\* Lines 138, 144-154: the dump raises; the iteration goes on.
ScDumpRaises ==
    /\ sc_pc = "dump"
    /\ AfterDump("raised", <<>>, <<>>)

NextScan ==
    \/ ScStop
    \/ ScStartListing
    \/ ScListingCompletes
    \/ ScListingRaises
    \/ ScFinish
    \/ ScCancel
    \/ ScStartDump
    \/ ScDumpCompletes
    \/ ScDumpRaises

\* One execution of ScanAdsWorker.run, and the calls of stop().
SpecScan == InitScan /\ [][NextScan]_vars

\* ------------------------------------------------------------------------
\* The Tk utility: remove_app and the uninstall buttons
\* (ph_android_remover_singlefile.py lines 18, 39-47, 89-102, 127, 166-169,
\* 198-207, 285-287, 328-350)
\* ------------------------------------------------------------------------

\* Line 18
DRY_RUN_DEFAULT == TRUE

\* The lists of checked packages _all_checked() can give (lines 329, 341):
\* none, one, or two.
Selections == { <<>>, << "p" >>, << "p", "q" >> }

\* What _run can return for an uninstall command (lines 39-47): the output
\* of pm, or the text of an exception; one output has the word in lower
\* case.
RunOutputs ==
    { << "S", "u", "c", "c", "e", "s", "s" >>,
      << "s", "u", "c", "c", "e", "s", "s" >>,
      << "F", "a", "i", "l", "u", "r", "e" >> }

\* Lines 90-93: the two candidate commands of remove_app(pkg).
CandidateCmds(pkg) ==
    << << "adb shell pm uninstall --user 0", pkg >>,
       << "adb shell pm uninstall", pkg >> >>

\* A remove_app that runs the commands whatever dry_run says.
DryRunIgnored(dry_run) == FALSE

\* Line 95: if dry_run
DryRunReturns(dry_run) == dry_run

\* A test that knows the capitalised word only.
IsSuccessCapital(out) == Contains(out, << "S", "u", "c", "c", "e", "s", "s" >>)

\* Line 100: "Success" in out or "success" in out
IsSuccess(out) ==
    \/ Contains(out, << "S", "u", "c", "c", "e", "s", "s" >>)
    \/ Contains(out, << "s", "u", "c", "c", "e", "s", "s" >>)

\* The dry_run argument of the call of remove_app by a handler of kind
\* kind: line 334, dry_run=True; line 345, dry_run=self.dry_run.
DryRunArgument(kind) == IF kind = "preview" THEN TRUE ELSE tk_dry_run

\* The locals of a thread just started by the button of kind kind, lines
\* 329 and 341: selected = self._all_checked().
NewThread(kind) ==
    [ kind |-> kind, pc |-> "started", selected |-> tk_selected, at |-> 0,
      dry_run |-> FALSE, left |-> <<>>, results |-> <<>> ]

InitTk ==
    /\ tk_dry_run = DRY_RUN_DEFAULT
    /\ tk_selected \in Selections
    /\ tk_threads = <<>>
    /\ tk_preview = <<>>
    /\ tk_issued = {}
    /\ tk_toggled = FALSE
    /\ OnlyTk

\* Lines 166-169, 285-287: a click on the dry-run checkbox.
ToggleDryRun ==
    /\ tk_dry_run' = ~tk_dry_run
    /\ tk_toggled' = TRUE
    /\ UNCHANGED << tk_selected, tk_threads, tk_preview, tk_issued >>
    /\ UNCHANGED exceptTk

\* Lines 198-207: a click on Preview Uninstall or Execute Uninstall starts
\* a thread that runs the handler.
Click(kind) ==
    /\ Len(tk_threads) < MaxClicks
    /\ tk_threads' = Append(tk_threads, NewThread(kind))
    /\ UNCHANGED << tk_dry_run, tk_selected, tk_preview, tk_issued,
                    tk_toggled >>
    /\ UNCHANGED exceptTk

ClickPreview == Click("preview")

ClickExecute == Click("execute")

\* Lines 330-332, 342-343: nothing is checked, the handler returns; else
\* the preview handler clears preview_commands and the loop starts.
Begin(th) ==
    /\ tk_threads[th].pc = "started"
    /\ IF tk_threads[th].selected = <<>>
       THEN /\ tk_threads' = [ tk_threads EXCEPT ![th].pc = "done" ]
            /\ UNCHANGED tk_preview
       ELSE /\ tk_threads' = [ tk_threads EXCEPT ![th].pc = "loop" ]
            /\ tk_preview' = IF tk_threads[th].kind = "preview" THEN <<>>
                             ELSE tk_preview
    /\ UNCHANGED << tk_dry_run, tk_selected, tk_issued, tk_toggled >>
    /\ UNCHANGED exceptTk

\* Lines 333, 344, 336-338, 350: no package is left, the handler ends.
End(th) ==
    /\ tk_threads[th].pc = "loop"
    /\ tk_threads[th].at = Len(tk_threads[th].selected)
    /\ tk_threads' = [ tk_threads EXCEPT ![th].pc = "done" ]
    /\ UNCHANGED << tk_dry_run, tk_selected, tk_preview, tk_issued,
                    tk_toggled >>
    /\ UNCHANGED exceptTk

\* Lines 334, 345, 89-96: remove_app is called on the next package, with
\* dry_run as the handler gives it; a dry run returns at once.
CallRemoveApp(th) ==
    LET t == tk_threads[th]
        pkg == t.selected[t.at + 1]
        dry_run == DryRunArgument(t.kind)
    IN  /\ t.pc = "loop"
        /\ t.at < Len(t.selected)
        /\ tk_threads' =
              [ tk_threads EXCEPT ![th].at = @ + 1,
                                  ![th].dry_run = dry_run,
                                  ![th].results = <<>>,
                                  ![th].left =
                                     IF DryRunReturns(dry_run) THEN <<>>
                                     ELSE CandidateCmds(pkg),
                                  ![th].pc = "remove_app" ]
        /\ UNCHANGED << tk_dry_run, tk_selected, tk_preview, tk_issued,
                        tk_toggled >>
        /\ UNCHANGED exceptTk

\* Lines 97-101: the next command of remove_app is run; after a success no
\* other command is.
RunCommand(th) ==
    LET t == tk_threads[th] IN
    /\ t.pc = "remove_app"
    /\ t.left # <<>>
    /\ \E out \in RunOutputs :
          tk_threads' =
             [ tk_threads EXCEPT ![th].results = Append(@, out),
                                 ![th].left = IF IsSuccess(out) THEN <<>>
                                              ELSE Tail(@) ]
    /\ tk_issued' = tk_issued \cup
          { [ cmd |-> Head(t.left)[1], kind |-> t.kind,
              argument |-> t.dry_run, setting |-> tk_dry_run ] }
    /\ UNCHANGED << tk_dry_run, tk_selected, tk_preview, tk_toggled >>
    /\ UNCHANGED exceptTk

\* Lines 96, 102, 334-335, 346-349: remove_app returns res; the preview
\* handler adds its commands to preview_commands, the other one logs them
\* with their outputs.  res is not read again: its results are dropped.
ReturnRemoveApp(th) ==
    LET t == tk_threads[th]
        cmds == CandidateCmds(t.selected[t.at])
    IN  /\ t.pc = "remove_app"
        /\ t.left = <<>>
        /\ tk_preview' = IF t.kind = "preview" THEN tk_preview \o cmds
                         ELSE tk_preview
        /\ tk_threads' = [ tk_threads EXCEPT ![th].pc = "loop",
                                            ![th].results = <<>> ]
        /\ UNCHANGED << tk_dry_run, tk_selected, tk_issued, tk_toggled >>
        /\ UNCHANGED exceptTk

NextTk ==
    \/ ToggleDryRun
    \/ ClickPreview
    \/ ClickExecute
    \/ \E th \in 1..Len(tk_threads) :
          \/ Begin(th)
          \/ End(th)
          \/ CallRemoveApp(th)
          \/ RunCommand(th)
          \/ ReturnRemoveApp(th)

\* The window, its dry-run checkbox and its two uninstall buttons.
SpecTk == InitTk /\ [][NextTk]_vars

\* ------------------------------------------------------------------------
\* The services tab of the package UI: refresh_services, _services_done and
\* stop_selected_service (gelotech_ui.py lines 207-326), with the
\* ServicesWorker it starts.  self.log is not defined in gelotech_ui.py; the
\* console it writes to is left out.
\* ------------------------------------------------------------------------

\* Buttons that stay enabled while the worker queries.
ButtonsLeftEnabled == TRUE

\* Lines 255-256: setEnabled(False) on both buttons.
ButtonsWhileQuerying == FALSE

\* A confirmation that any answer passes.
ConfirmedAlways(confirm) == TRUE

\* Line 305: confirm != QMessageBox.StandardButton.Yes returns
Confirmed(confirm) == confirm = "Yes"

\* A call of refresh_services that is skipped after an error.
RefreshUnlessError(box) == box # "Error"

\* Lines 325-326: finally, refresh_services is called whatever message box
\* was shown.
RefreshAfterStop(box) == TRUE

\* Lines 268-276: the rows inserted for the packages keys of results, one
\* per component, in the order of keys.
RECURSIVE RowsFrom(_, _)
RowsFrom(results, keys) ==
    IF keys = <<>> THEN <<>>
    ELSE [ i \in 1..Len(results[Head(keys)]) |->
              << Head(keys), results[Head(keys)][i] >> ]
            \o RowsFrom(results, Tail(keys))

\* Lines 310-319: the message box shown for a return code and an output.
BoxFor(returncode, out) ==
    IF \/ Contains(out, << "S", "t", "o", "p", "p", "i", "n", "g", " ",
                           "s", "e", "r", "v", "i", "c", "e" >>)
       \/ Contains(out, << "S", "t", "o", "p", "S", "e", "r", "v", "i", "c",
                           "e" >>)
       \/ returncode = 0
    THEN "Service Stopped"
    ELSE IF returncode = 0 THEN "Service Stop Requested"
    ELSE "Stop Failed"

\* What 'am stopservice' can print.
StopOutputs ==
    { <<>>,
      << "S", "t", "o", "p", "p", "i", "n", "g", " ", "s", "e", "r", "v",
         "i", "c", "e" >>,
      << "E", "r", "r", "o", "r" >> }

\* Lines 22-39 and 207-246: the window just built, with or without an adb
\* path; no worker exists.
InitUi ==
    /\ ui_adb \in { <<>>, << "a", "d", "b" >> }
    /\ ui_status = "Ready"
    /\ ui_rows = <<>>
    /\ ui_current = 0
    /\ ui_busy = FALSE
    /\ ui_refresh_on = TRUE
    /\ ui_stop_on = TRUE
    /\ ui_worker = FALSE
    /\ ui_pc = "idle"
    /\ ui_component = <<>>
    /\ ui_delivered = 0
    /\ ui_querying = FALSE
    /\ ui_overlapped = FALSE
    /\ ui_issued = {}
    /\ ui_owed = FALSE
    /\ OnlyUi

\* Lines 248-261, refresh_services(): without an adb path a message box and
\* nothing else; with one, the table is cleared, the indicator shown, the
\* buttons disabled and a new ServicesWorker started.
RefreshServices ==
    /\ ui_owed' = FALSE
    /\ IF ui_adb = <<>>
       THEN UNCHANGED << ui_status, ui_rows, ui_current, ui_busy,
                         ui_refresh_on, ui_stop_on, ui_worker, ui_delivered,
                         ui_querying, ui_overlapped, servicesVars >>
       ELSE /\ ui_status' = "Querying running services..."
            /\ ui_rows' = <<>>
            /\ ui_current' = 0
            /\ ui_busy' = TRUE
            /\ ui_refresh_on' = ButtonsWhileQuerying
            /\ ui_stop_on' = ButtonsWhileQuerying
            /\ ui_worker' = TRUE
            /\ ui_delivered' = 0
            /\ ui_querying' = TRUE
            /\ ui_overlapped' = (ui_overlapped \/ ui_querying)
            /\ sw_adb' = ui_adb
            /\ sw_pc' = "start"
            /\ sw_cmds' = <<>>
            /\ sw_out' = <<>>
            /\ sw_calls' = <<>>
            /\ sw_mapping' = EmptyMapping
            /\ sw_emitted' = <<>>
            /\ sw_log' = <<>>

\* Line 215: a click on Refresh Services.
ClickRefresh ==
    /\ ui_pc = "idle"
    /\ ui_refresh_on
    /\ RefreshServices
    /\ UNCHANGED << ui_adb, ui_pc, ui_component, ui_issued >>
    /\ UNCHANGED exceptUiServices

\* The user makes row r of the services table the current one.
SelectRow ==
    /\ ui_pc = "idle"
    /\ \E r \in 1..Len(ui_rows) : ui_current' = r
    /\ UNCHANGED << ui_adb, ui_status, ui_rows, ui_busy, ui_refresh_on,
                    ui_stop_on, ui_worker, ui_pc, ui_component, ui_delivered,
                    ui_querying, ui_overlapped, ui_issued, ui_owed >>
    /\ UNCHANGED exceptUi

\* Lines 219, 289-304: a click on Stop Selected Service.  Without an adb
\* path or a current row with a component, a message box and nothing else;
\* otherwise the confirmation is asked.
ClickStop ==
    /\ ui_pc = "idle"
    /\ ui_stop_on
    /\ IF ui_adb = <<>> \/ ui_current < 1 \/ ui_current > Len(ui_rows)
       THEN UNCHANGED << ui_pc, ui_component >>
       ELSE /\ ui_component' = Strip(ui_rows[ui_current][2])
            /\ ui_pc' = "confirm"
    /\ UNCHANGED << ui_adb, ui_status, ui_rows, ui_current, ui_busy,
                    ui_refresh_on, ui_stop_on, ui_worker, ui_delivered,
                    ui_querying, ui_overlapped, ui_issued, ui_owed >>
    /\ UNCHANGED exceptUi

\* Lines 303-309: the user answers the confirmation.  On Yes the status is
\* set and the command is run; on any other answer the handler returns.
Answer ==
    /\ ui_pc = "confirm"
    /\ \E confirm \in { "Yes", "No" } :
          IF Confirmed(confirm)
          THEN /\ ui_status' = "Stopping"
               /\ ui_issued' = ui_issued \cup
                     { [ adb |-> ui_adb, component |-> ui_component,
                         row |-> ui_current, rows |-> ui_rows,
                         confirm |-> confirm ] }
               /\ ui_owed' = TRUE
               /\ ui_pc' = "stopservice"
          ELSE /\ ui_pc' = "idle"
               /\ UNCHANGED << ui_status, ui_issued, ui_owed >>
    /\ UNCHANGED << ui_adb, ui_rows, ui_current, ui_busy, ui_refresh_on,
                    ui_stop_on, ui_worker, ui_component, ui_delivered,
                    ui_querying, ui_overlapped >>
    /\ UNCHANGED exceptUi

\* Lines 308-319: the command completes, and a message box tells how.
StopCompletes ==
    /\ ui_pc = "stopservice"
    /\ \E returncode \in { 0, 1 }, stdout, stderr \in StopOutputs :
          ui_pc' = BoxFor(returncode, stdout \o stderr)
    /\ UNCHANGED << ui_adb, ui_status, ui_rows, ui_current, ui_busy,
                    ui_refresh_on, ui_stop_on, ui_worker, ui_component,
                    ui_delivered, ui_querying, ui_overlapped, ui_issued,
                    ui_owed >>
    /\ UNCHANGED exceptUi

\* Lines 308-309, 320-322: subprocess.run raises (the timeout, a missing
\* adb), and a message box tells the error.
StopRaises ==
    /\ ui_pc = "stopservice"
    /\ ui_pc' = "Error"
    /\ UNCHANGED << ui_adb, ui_status, ui_rows, ui_current, ui_busy,
                    ui_refresh_on, ui_stop_on, ui_worker, ui_component,
                    ui_delivered, ui_querying, ui_overlapped, ui_issued,
                    ui_owed >>
    /\ UNCHANGED exceptUi

\* Lines 311-326: the message box is closed, and refresh_services is
\* called.
CloseBox ==
    /\ ui_pc \in { "Service Stopped", "Service Stop Requested", "Stop Failed",
                   "Error" }
    /\ ui_pc' = "idle"
    /\ IF RefreshAfterStop(ui_pc) THEN RefreshServices
       ELSE UNCHANGED << ui_status, ui_rows, ui_current, ui_busy,
                         ui_refresh_on, ui_stop_on, ui_worker, ui_delivered,
                         ui_querying, ui_overlapped, ui_owed, servicesVars >>
    /\ UNCHANGED << ui_adb, ui_component, ui_issued >>
    /\ UNCHANGED exceptUiServices

\* Lines 260, 263-279: a result the worker emitted reaches _services_done,
\* while the GUI thread runs an event loop (the window's, or a dialog's).
ServicesDone ==
    /\ ui_pc # "stopservice"
    /\ ui_delivered < Len(sw_emitted)
    /\ ui_delivered' = ui_delivered + 1
    /\ ui_busy' = FALSE
    /\ ui_refresh_on' = TRUE
    /\ ui_stop_on' = TRUE
    /\ ui_rows' = RowsFrom(sw_emitted[ui_delivered + 1],
                           SortedOfSet(DOMAIN sw_emitted[ui_delivered + 1]))
    /\ ui_current' = 0
    /\ ui_status' = "Services listed"
    /\ ui_worker' = FALSE
    /\ ui_querying' = FALSE
    /\ UNCHANGED << ui_adb, ui_pc, ui_component, ui_overlapped, ui_issued,
                    ui_owed >>
    /\ UNCHANGED exceptUi

\* The steps of the worker's run().
WorkerStep ==
    \/ SwStartPrimary
    \/ SwPrimaryCompletes
    \/ SwFallbackCompletes
    \/ SwCommandRaises
    \/ SwExtract
    \/ SwEmit

NextUi ==
    \/ ClickRefresh
    \/ SelectRow
    \/ ClickStop
    \/ Answer
    \/ StopCompletes
    \/ StopRaises
    \/ CloseBox
    \/ ServicesDone
    \/ WorkerStep

\* The services tab and its worker.
SpecUi == InitUi /\ [][NextUi]_vars

\* The same, where a command that was started ends, the worker's run() goes
\* on to its end, and a result that was emitted is delivered: subprocess.run
\* has a timeout and Qt's event loop serves the queued signal.
FairSpecUi ==
    /\ SpecUi
    /\ WF_vars(WorkerStep)
    /\ WF_vars(ServicesDone)
    /\ WF_vars(StopCompletes \/ StopRaises)

\* ------------------------------------------------------------------------
\* The ad scan of the single-file application
\* (gelotech_ad_remover_Version4.py): start_scan_ads, _stop_scan, _scan_done
\* and the ScanAdsWorker threads they start.  The console self.log writes
\* to is not part of the state.
\* ------------------------------------------------------------------------

\* What 'pm list packages -f' prints on the device of the window: the
\* packages c.ad and B.
DeviceListing ==
    << << "p", "a", "c", "k", "a", "g", "e", ":", "/", "b", "=", "c", ".",
          "a", "d" >>,
       << "p", "a", "c", "k", "a", "g", "e", ":", "/", "A", "d", "=", "B" >> >>

\* Lines 409-421: the rows refresh_apps() gave both tables on that device.
DevicePackages == << << "c", ".", "a", "d" >>, << "B" >> >>

\* Line 705: the status text after a scan that flagged n rows.
CompleteStatus(n) ==
    CASE n = 0 -> "Status: Scan complete. Flagged 0 apps."
      [] n = 1 -> "Status: Scan complete. Flagged 1 apps."
      [] OTHER -> "Status: Scan complete. Flagged 2 apps."

\* Lines 102-106, 109: a worker just created, and the local results of its
\* run().
NewScanWorker ==
    [ stop |-> FALSE, pc |-> "listing", lines |-> <<>>, idx |-> 0,
      results |-> EmptyMapping ]

\* Lines 99, 664: progress.emit(n), queued for the GUI thread.
ProgressSignal(w, n) ==
    [ kind |-> "progress", worker |-> w, percent |-> n,
      results |-> EmptyMapping ]

\* Lines 101, 666: result.emit(results), queued for the GUI thread.
ResultSignal(w, results) ==
    [ kind |-> "result", worker |-> w, percent |-> 0, results |-> results ]

\* Lines 151-165, 282-284, 310-320: the window just built, with or without
\* an adb path and with or without packages in its tables; no worker exists.
InitApp ==
    /\ app_adb \in { <<>>, << "a", "d", "b" >> }
    /\ app_rows \in { <<>>, DevicePackages }
    /\ app_scan_on = TRUE
    /\ app_stop_on = FALSE
    /\ app_progress = 0
    /\ app_status = "Status: Ready"
    /\ app_flags = EmptyMapping
    /\ app_flagged = 0
    /\ app_scan_worker = 0
    /\ app_workers = <<>>
    /\ app_queue = <<>>
    /\ app_last = EmptyMapping
    /\ OnlyApp

\* Lines 652-667, start_scan_ads(): without an adb path or without rows a
\* message box and nothing else; otherwise the buttons are switched, the
\* bar is reset and a new worker is created, connected and started.
StartScanAds ==
    /\ IF app_adb = <<>> \/ Len(app_rows) = 0
       THEN UNCHANGED appVars
       ELSE /\ app_scan_on' = FALSE
            /\ app_stop_on' = TRUE
            /\ app_progress' = 0
            /\ app_status' = "Status: Scanning for ad SDKs..."
            /\ app_workers' = Append(app_workers, NewScanWorker)
            /\ app_scan_worker' = Len(app_workers')
            /\ UNCHANGED << app_adb, app_rows, app_flags, app_flagged,
                            app_queue, app_last >>
    /\ UNCHANGED exceptApp

\* Lines 310-311: a click on "Start Scan", which is enabled.
ClickStartScan ==
    /\ app_scan_on
    /\ Len(app_workers) < MaxScans
    /\ StartScanAds

\* Lines 282-284: a click on "Scan for Ads", which is never disabled.
ClickScanForAds ==
    /\ Len(app_workers) < MaxScans
    /\ StartScanAds

\* Lines 669-677, _stop_scan(): the flag of the worker self.scan_worker
\* refers to is set and the reference dropped; the buttons are switched
\* back.
StopScan ==
    /\ IF app_scan_worker # 0
       THEN /\ app_workers' =
                 [ app_workers EXCEPT ![app_scan_worker].stop = TRUE ]
            /\ app_scan_worker' = 0
            /\ app_scan_on' = TRUE
            /\ app_stop_on' = FALSE
            /\ app_status' = "Status: Scan stopped"
            /\ app_progress' = 0
            /\ UNCHANGED << app_adb, app_rows, app_flags, app_flagged,
                            app_queue, app_last >>
       ELSE UNCHANGED appVars
    /\ UNCHANGED exceptApp

\* Lines 312-313: a click on "Stop", which is enabled.
ClickStopScan ==
    /\ app_stop_on
    /\ StopScan

\* What a step of worker w leaves alone.
WidgetsUnchanged ==
    /\ UNCHANGED << app_adb, app_rows, app_scan_on, app_stop_on,
                    app_progress, app_status, app_flags, app_flagged,
                    app_scan_worker, app_last >>
    /\ UNCHANGED exceptApp

\* Lines 111-115: the listing command of worker w completes.
WorkerListingCompletes(w) ==
    /\ app_workers[w].pc = "listing"
    /\ app_workers' = [ app_workers EXCEPT ![w].lines =
                                               StripLines(DeviceListing),
                                           ![w].pc = "loop" ]
    /\ UNCHANGED app_queue
    /\ WidgetsUnchanged

\* Lines 111, 143-145: the listing command of worker w raises; results is
\* emitted.
WorkerListingRaises(w) ==
    /\ app_workers[w].pc = "listing"
    /\ app_workers' = [ app_workers EXCEPT ![w].pc = "done" ]
    /\ app_queue' = Append(app_queue, ResultSignal(w, app_workers[w].results))
    /\ WidgetsUnchanged

\* Lines 116, 142: no line is left; results is emitted.
WorkerFinish(w) ==
    /\ app_workers[w].pc = "loop"
    /\ app_workers[w].idx >= Len(app_workers[w].lines)
    /\ app_workers' = [ app_workers EXCEPT ![w].pc = "done" ]
    /\ app_queue' = Append(app_queue, ResultSignal(w, app_workers[w].results))
    /\ WidgetsUnchanged

\* Lines 116-119, 142: a line is left and the flag is set; the loop is
\* left and results is emitted.
WorkerCancel(w) ==
    /\ app_workers[w].pc = "loop"
    /\ app_workers[w].idx < Len(app_workers[w].lines)
    /\ CancelSeen(app_workers[w].stop)
    /\ app_workers' = [ app_workers EXCEPT ![w].pc = "done" ]
    /\ app_queue' = Append(app_queue, ResultSignal(w, app_workers[w].results))
    /\ WidgetsUnchanged

\* Lines 116-125: a line is left and the flag is not set; the dump of its
\* package is started.
WorkerStartDump(w) ==
    /\ app_workers[w].pc = "loop"
    /\ app_workers[w].idx < Len(app_workers[w].lines)
    /\ ~CancelSeen(app_workers[w].stop)
    /\ app_workers' = [ app_workers EXCEPT ![w].idx = @ + 1,
                                           ![w].pc = "dump" ]
    /\ UNCHANGED app_queue
    /\ WidgetsUnchanged

\* Lines 124-141: the dump of worker w ends in state st with the outputs
\* stdout and stderr; the matches of the package are recorded and the
\* progress is emitted.
WorkerAfterDump(w, st, stdout, stderr) ==
    LET ln == app_workers[w].lines[app_workers[w].idx]
        pkg == PkgOfLine(ln)
        found == MatchesOf(ln, pkg, st, stdout, stderr)
    IN  /\ app_workers[w].pc = "dump"
        /\ app_workers' =
             [ app_workers EXCEPT
                 ![w].results = IF found # {} THEN Assign(@, pkg, found)
                                ELSE @,
                 ![w].pc = "loop" ]
        /\ app_queue' =
             Append(app_queue,
                    ProgressSignal(w, ProgressOf(app_workers[w].idx,
                                                 app_workers[w].lines)))
        /\ WidgetsUnchanged

\* Lines 124-141: the dump completes.
WorkerDumpCompletes(w) ==
    \E stdout \in DumpStdouts, stderr \in DumpStderrs :
        WorkerAfterDump(w, "completed", stdout, stderr)

\* Lines 124, 130-141: the dump raises; the iteration goes on.
WorkerDumpRaises(w) == WorkerAfterDump(w, "raised", <<>>, <<>>)

\* Line 664: a progress signal reaches self.progress.setValue.
DeliverProgress ==
    /\ app_queue # <<>>
    /\ Head(app_queue).kind = "progress"
    /\ app_progress' = Head(app_queue).percent
    /\ app_queue' = Tail(app_queue)
    /\ UNCHANGED << app_adb, app_rows, app_scan_on, app_stop_on, app_status,
                    app_flags, app_flagged, app_scan_worker, app_workers,
                    app_last >>
    /\ UNCHANGED exceptApp

\* Lines 690-700: the rows of the detector table whose package is a key of
\* results.
RowsFlaggedBy(results) ==
    { pkg \in DOMAIN results :
        \E r \in 1..Len(app_rows) : app_rows[r] = pkg }

\* Lines 679-707, _scan_done(results): the flags are cleared and set anew
\* from results, the bar is filled, the buttons are switched back and
\* results is kept.
ScanDone(results) ==
    /\ app_flags' = [ pkg \in RowsFlaggedBy(results) |-> results[pkg] ]
    /\ app_flagged' = Cardinality(RowsFlaggedBy(results))
    /\ app_progress' = 100
    /\ app_scan_on' = TRUE
    /\ app_stop_on' = FALSE
    /\ app_status' = CompleteStatus(app_flagged')
    /\ app_last' = results
    /\ UNCHANGED << app_adb, app_rows, app_scan_worker, app_workers >>
    /\ UNCHANGED exceptApp

\* Line 666: a result signal reaches self._scan_done.
DeliverResult ==
    /\ app_queue # <<>>
    /\ Head(app_queue).kind = "result"
    /\ app_queue' = Tail(app_queue)
    /\ ScanDone(Head(app_queue).results)

NextApp ==
    \/ ClickStartScan
    \/ ClickScanForAds
    \/ ClickStopScan
    \/ \E w \in 1..Len(app_workers) : WorkerListingCompletes(w)
    \/ \E w \in 1..Len(app_workers) : WorkerListingRaises(w)
    \/ \E w \in 1..Len(app_workers) : WorkerFinish(w)
    \/ \E w \in 1..Len(app_workers) : WorkerCancel(w)
    \/ \E w \in 1..Len(app_workers) : WorkerStartDump(w)
    \/ \E w \in 1..Len(app_workers) : WorkerDumpCompletes(w)
    \/ \E w \in 1..Len(app_workers) : WorkerDumpRaises(w)
    \/ DeliverProgress
    \/ DeliverResult

\* The scan controls of the window and the workers they start.
SpecApp == InitApp /\ [][NextApp]_vars

\* ------------------------------------------------------------------------
\* The app lists of the Tk utility and their checkboxes
\* (ph_android_remover_singlefile.py lines 21-34, 74-87, 196-201, 220-274,
\* 309-318, 362-379).  The handlers run one after the other.
\* ------------------------------------------------------------------------

\* Lines 196-198: the three lists.
Trees == { "user", "system", "disabled" }

\* Lines 74-87: what a listing command can give a list: nothing, a package
\* that AD_DB knows, or a line with a bracket and a blank in it and a
\* package in upper case.
TreeListings ==
    { <<>>,
      << << "c", "o", "m", ".", "a", "d", "w", "a", "r", "e", ".", "x" >> >>,
      << << "a", "]", "b", " ", "c" >>, << "B" >> >> }

\* Lines 21-34: AD_DB, here two of its prefixes.
AD_DB == { << "c", "o", "m", ".", "a", "d", "w", "a", "r", "e" >>, << "c", "o", "m", ".", "m", "o", "p", "u", "b" >> }

\* What the search field can hold.
SearchTexts == { <<>>, << " " >>, << " ", "A", "D", " " >>, << "b" >> }

\* The check mark of a checked row (U+2714).
Tick == "v"

\* f"[ ] {pkg}" and the f-string with the check mark.
Shown(pkg, check) == << "[", IF check THEN Tick ELSE " ", "]", " " >> \o pkg

\* s.split("]")[-1]: what follows the last bracket.
RECURSIVE AfterLastBracket(_)
AfterLastBracket(s) ==
    IF \E i \in 1..Len(s) : s[i] = "]"
    THEN AfterLastBracket(SubSeq(s, (CHOOSE i \in 1..Len(s) : s[i] = "]") + 1,
                                 Len(s)))
    ELSE s

\* s.split("]", 1)[-1]: what follows the first bracket, s without one.
AfterFirstBracket(s) ==
    IF \E i \in 1..Len(s) : s[i] = "]"
    THEN SubSeq(s, (CHOOSE i \in 1..Len(s) :
                       s[i] = "]" /\ \A k \in 1..(i - 1) : s[k] # "]") + 1,
                Len(s))
    ELSE s

\* The name after the last bracket of the text.
PkgOfValuesLastBracket(values) == Strip(AfterLastBracket(values[1]))

\* Lines 248, 258, 272, 368, 376:
\* tree.item(i, "values")[0].split("]", 1)[-1].strip()
PkgOfValues(values) == Strip(AfterFirstBracket(values[1]))

\* Lines 260, 271: "checked" in tree.item(i, "tags"), tags being a tuple.
IsChecked(row) == \E k \in 1..Len(row.tags) : row.tags[k] = "checked"

\* Lines 250-251, 262, 265, 370, 378: tree.item(i, tags=..., values=...)
\* with the name read from the row.
SetRow(row, check) ==
    [ row EXCEPT !.tags = << IF check THEN "checked" ELSE "unchecked" >>,
                 !.values = << Shown(PkgOfValues(row.values), check) >> ]

\* Line 317: tree.insert("", "end", values=(f"[ ] {pkg}",),
\* tags=("unchecked",))
NewRow(pkg) ==
    [ values |-> << Shown(pkg, FALSE) >>, tags |-> << "unchecked" >>,
      name |-> pkg ]

\* Lines 259-266: the row toggled.
ToggleRow(row) == SetRow(row, ~IsChecked(row))

\* str.lower() of a text that can hold brackets.
LowerText(s) ==
    [ i \in 1..Len(s) |->
        IF s[i] \in DOMAIN LowerChar THEN LowerChar[s[i]] ELSE s[i] ]

\* pkg.startswith(p)
StartsWith(pkg, p) == Len(p) <= Len(pkg) /\ SubSeq(pkg, 1, Len(p)) = p

\* The names read from the rows of the lists.
RowNames(rows) ==
    UNION { { PkgOfValues(rows[t][i].values) : i \in 1..Len(rows[t]) } :
              t \in Trees }

\* Lines 366-370 and 374-378: the rows whose name is in hits are written
\* anew, checked.
CheckWhere(rows, hits) ==
    [ t \in Trees |->
        [ i \in 1..Len(rows[t]) |->
            IF PkgOfValues(rows[t][i].values) \in hits
            THEN SetRow(rows[t][i], TRUE)
            ELSE rows[t][i] ] ]

\* Lines 196-198, 220-241: the window just built, its lists empty.
InitTree ==
    /\ tr_rows = [ t \in Trees |-> <<>> ]
    /\ tr_select_all = [ t \in Trees |-> FALSE ]
    /\ OnlyTree

\* Lines 309-318, refresh_app_lists(): every list is emptied and filled
\* with the packages of its listing.
RefreshAppLists ==
    /\ \E data \in [ Trees -> TreeListings ] :
          tr_rows' = [ t \in Trees |->
                         [ i \in 1..Len(data[t]) |-> NewRow(data[t][i]) ] ]
    /\ UNCHANGED tr_select_all
    /\ UNCHANGED exceptTree

\* Lines 222-226, 243-252: a click on "Select All / Deselect All" of a list
\* flips its variable, and _toggle_all_checkboxes writes every row.
ToggleAllCheckboxes ==
    /\ \E t \in Trees :
          /\ tr_select_all' = [ tr_select_all EXCEPT ![t] = ~@ ]
          /\ tr_rows' = [ tr_rows EXCEPT ![t] =
                            [ i \in 1..Len(@) |->
                                SetRow(@[i], tr_select_all'[t]) ] ]
    /\ UNCHANGED exceptTree

\* Lines 238, 254-266: a double click on a row of a list toggles it; one
\* beside the rows does nothing.
ToggleCheckbox ==
    /\ \E t \in Trees :
          \E i \in 0..Len(tr_rows[t]) :
             tr_rows' = IF i = 0 THEN tr_rows
                        ELSE [ tr_rows EXCEPT ![t][i] = ToggleRow(@) ]
    /\ UNCHANGED tr_select_all
    /\ UNCHANGED exceptTree

\* Lines 362-371, select_by_search(): with an empty field nothing; else
\* the rows whose name in lower case holds the field's text are checked.
SelectBySearch ==
    /\ \E text \in SearchTexts :
          LET q == Lower(Strip(text))
              hits == { pkg \in RowNames(tr_rows) :
                          Contains(LowerText(pkg), q) }
          IN  tr_rows' = IF q = <<>> THEN tr_rows
                         ELSE CheckWhere(tr_rows, hits)
    /\ UNCHANGED tr_select_all
    /\ UNCHANGED exceptTree

\* Lines 373-379, select_ad_db_matches(): the rows whose name starts with
\* an entry of AD_DB are checked.
SelectAdDbMatches ==
    /\ LET hits == { pkg \in RowNames(tr_rows) :
                        \E p \in AD_DB : StartsWith(pkg, p) }
       IN  tr_rows' = CheckWhere(tr_rows, hits)
    /\ UNCHANGED tr_select_all
    /\ UNCHANGED exceptTree

NextTree ==
    \/ RefreshAppLists
    \/ ToggleAllCheckboxes
    \/ ToggleCheckbox
    \/ SelectBySearch
    \/ SelectAdDbMatches

\* The three lists and the handlers that write their rows.
SpecTree == InitTree /\ [][NextTree]_vars

\* ------------------------------------------------------------------------
\* Properties of the extractor
\* ------------------------------------------------------------------------

\* The number of "/" in s.
SlashCount(s) == Cardinality({ i \in 1..Len(s) : s[i] = "/" })

\* The part of a token after its only "/".
AfterSlash(tok) ==
    SubSeq(tok, (CHOOSE i \in 1..Len(tok) : tok[i] = "/") + 1, Len(tok))

\* Does s occur in t as a contiguous substring?
OccursIn(s, t) ==
    \E i \in 1..(Len(t) - Len(s) + 1) : SubSeq(t, i, i + Len(s) - 1) = s

\* The tokens of all the lists of the returned mapping.
ResultTokens == UNION { Range(result[k]) : k \in DOMAIN result }

\* C1: a call on an absent input (None), on the empty string or on a text
\* without any "/" returns the empty mapping.
C1_EmptyWithoutSlash ==
    (outcome # "idle" /\ (dumpsys_text = None \/ SlashCount(dumpsys_text) = 0))
        => (outcome = "returned" /\ result = EmptyMapping)

\* A call returned on a text with package-like words (letters around a dot)
\* but no "/".
C1_Witness ==
    /\ outcome = "returned"
    /\ dumpsys_text # None
    /\ SlashCount(dumpsys_text) = 0
    /\ \E i \in 2..(Len(dumpsys_text) - 1) :
          /\ dumpsys_text[i] = "."
          /\ dumpsys_text[i - 1] \in Letters
          /\ dumpsys_text[i + 1] \in Letters
    /\ result = EmptyMapping

\* C2: no call raises; every call returns a mapping from packages to lists
\* of tokens, whatever the text (garbled, unbalanced braces, a trailing "/",
\* "$" or ".").
C2_NeverFails ==
    /\ outcome # "raised"
    /\ outcome = "returned" =>
          \A k \in DOMAIN result :
              /\ k \in Seq(DOMAIN Ord)
              /\ result[k] \in Seq(Seq(DOMAIN Ord))

\* A call returned on a text with a "{" that is never closed and a trailing
\* "/", "$" or ".".
C2_Witness ==
    /\ outcome = "returned"
    /\ dumpsys_text # None
    /\ \E i \in 1..Len(dumpsys_text) :
          /\ dumpsys_text[i] = "{"
          /\ \A j \in i..Len(dumpsys_text) : dumpsys_text[j] # "}"
    /\ dumpsys_text[Len(dumpsys_text)] \in { "/", "$", "." }
    /\ SlashCount(dumpsys_text) > 0

\* C3: every token of the returned mapping has exactly one "/", and the part
\* after it is not empty and holds at least one ASCII letter.
C3_TokensWellFormed ==
    \A tok \in ResultTokens :
        /\ SlashCount(tok) = 1
        /\ AfterSlash(tok) # <<>>
        /\ \E i \in 1..Len(AfterSlash(tok)) : AfterSlash(tok)[i] \in Letters

\* A call returned after the scans had matched a candidate whose right-hand
\* side holds no letter (it is not in the mapping).
C3_Witness ==
    /\ outcome = "returned"
    /\ \E i \in 1..Len(matches) :
          /\ SlashCount(matches[i]) = 1
          /\ AfterSlash(matches[i]) # <<>>
          /\ \A k \in 1..Len(AfterSlash(matches[i])) :
                AfterSlash(matches[i])[k] \notin Letters

\* C4: no two tokens of the returned mapping, in the same list or in
\* different lists, are equal under case-insensitive comparison.
C4_NoCaseDuplicates ==
    \A k1 \in DOMAIN result : \A k2 \in DOMAIN result :
        \A i \in 1..Len(result[k1]) : \A j \in 1..Len(result[k2]) :
            (k1 # k2 \/ i # j) => Lower(result[k1][i]) # Lower(result[k2][j])

\* A call returned after the scans had matched two tokens of one package
\* that differ in letter case only.
C4_Witness ==
    /\ outcome = "returned"
    /\ \E i \in 1..Len(matches) : \E j \in 1..Len(matches) :
          /\ matches[i] # matches[j]
          /\ Lower(matches[i]) = Lower(matches[j])
          /\ \E n \in 1..Len(matches[i]) :
                /\ matches[i][n] = "/"
                /\ SubSeq(matches[i], 1, n) = SubSeq(matches[j], 1, n)
    /\ result # EmptyMapping

\* C5: every list of the returned mapping is in ascending code-point order.
C5_ListsSorted ==
    \A k \in DOMAIN result :
        \A i \in 1..(Len(result[k]) - 1) :
            ~StrLess(result[k][i + 1], result[k][i])

\* A call returned a list whose tokens were found in another order than the
\* sorted one.
C5_Witness ==
    /\ outcome = "returned"
    /\ \E k \in DOMAIN result :
          \E i \in 1..Len(cleaned) : \E j \in 1..Len(cleaned) :
              /\ i < j
              /\ cleaned[i] \in Range(result[k])
              /\ cleaned[j] \in Range(result[k])
              /\ StrLess(cleaned[j], cleaned[i])

\* Is k exactly the part of tok left of its first "/"?
IsPackageOf(k, tok) ==
    /\ Len(tok) > Len(k)
    /\ SubSeq(tok, 1, Len(k)) = k
    /\ tok[Len(k) + 1] = "/"
    /\ \A i \in 1..Len(k) : k[i] # "/"

\* C6: every token listed under key k has k as the part left of its first
\* "/"; no key has an empty list; every surviving token is listed under a
\* key.
C6_GroupedByPackage ==
    /\ \A k \in DOMAIN result :
          /\ result[k] # <<>>
          /\ \A i \in 1..Len(result[k]) : IsPackageOf(k, result[k][i])
    /\ outcome = "returned" =>
          \A i \in 1..Len(cleaned) : cleaned[i] \in ResultTokens

\* A call returned a mapping with two packages.
C6_Witness ==
    /\ outcome = "returned"
    /\ Cardinality(DOMAIN result) >= 2

\* After a call, the locals hold nothing of an earlier call: every match is a
\* piece of the text of this call, and seen_lower holds the keys of the
\* tokens this call kept and no other.
FreshLocals ==
    outcome = "returned" =>
        /\ \A i \in 1..Len(matches) : OccursIn(matches[i], dumpsys_text)
        /\ seen_lower = { Lower(cleaned[i]) : i \in 1..Len(cleaned) }

\* A call on the argument of the call before it returns what that call
\* returned.
RepeatAgrees ==
    (outcome = "returned" /\ outcome' = "returned"
        /\ dumpsys_text' = dumpsys_text) => result' = result

\* C7: the extractor is deterministic and keeps no state between calls: a
\* call on the input of the call before it returns the identical mapping,
\* and the locals of a call hold nothing of the calls made before.
C7_Deterministic == []FreshLocals /\ [][RepeatAgrees]_vars

\* A call on the input of the call before it returned a mapping that is not
\* empty.
C7_Witness ==
    /\ outcome = "returned"
    /\ repeated
    /\ result # EmptyMapping

\* The characters that delimit a token in the sense of C8: whitespace, the
\* braces and "=".
Delimiters == { " ", "\n", "\t", "\r", "{", "}", "=" }

\* Letters, digits and "_".
IdentChars == Letters \cup Digits \cup { "_" }

\* t[i..j-1] is a delimited token p/c with its "/" at s: p of letters, digits,
\* "_" and ".", starting with a letter, digit or "_"; c of letters, digits,
\* "_", "." and "$", ending with a letter, digit or "_" and holding a letter;
\* a delimiter or the text boundary on both sides.
IsDelimitedToken(t, i, s, j) ==
    /\ 1 <= i /\ i < s /\ s + 1 < j /\ j <= Len(t) + 1
    /\ t[s] = "/"
    /\ t[i] \in IdentChars
    /\ \A k \in i..(s - 1) : t[k] \in IdentChars \cup { "." }
    /\ \A k \in (s + 1)..(j - 1) : t[k] \in IdentChars \cup { ".", "$" }
    /\ t[j - 1] \in IdentChars
    /\ \E k \in (s + 1)..(j - 1) : t[k] \in Letters
    /\ (i = 1 \/ t[i - 1] \in Delimiters)
    /\ (j = Len(t) + 1 \/ t[j] \in Delimiters)

\* The delimited tokens of t, as triples <<start, slash, end>> (end exclusive).
DelimitedTokens(t) ==
    IF t = None THEN {}
    ELSE { o \in { i \in 1..Len(t) : i = 1 \/ t[i - 1] \in Delimiters }
                    \X { s \in 1..Len(t) : t[s] = "/" }
                    \X { j \in 2..(Len(t) + 1) :
                            j = Len(t) + 1 \/ t[j] \in Delimiters } :
              IsDelimitedToken(t, o[1], o[2], o[3]) }

\* The original statement of C8: for every delimited token p/c of the text,
\* the mapping has key p and the list of p holds a token equal to p/c
\* ignoring case.
C8_RecallUnderKey ==
    outcome = "returned" =>
        \A o \in DelimitedTokens(dumpsys_text) :
            LET p == SubSeq(dumpsys_text, o[1], o[2] - 1)
                tok == SubSeq(dumpsys_text, o[1], o[3] - 1)
            IN  /\ p \in DOMAIN result
                /\ \E n \in 1..Len(result[p]) : Lower(result[p][n]) = Lower(tok)

\* C8, amended: for every delimited token p/c of the text, the mapping holds
\* a token equal to p/c ignoring case, in the list of a key equal to p
\* ignoring case (the key is p itself unless the token kept is an earlier
\* match that differs from p/c in letter case); the token holds no
\* whitespace, so an annotation that follows it is not part of it.
C8_RecallIgnoringCase ==
    outcome = "returned" =>
        \A o \in DelimitedTokens(dumpsys_text) :
            LET p == SubSeq(dumpsys_text, o[1], o[2] - 1)
                tok == SubSeq(dumpsys_text, o[1], o[3] - 1)
            IN  \E k \in DOMAIN result :
                    /\ Lower(k) = Lower(p)
                    /\ \E n \in 1..Len(result[k]) :
                          /\ Lower(result[k][n]) = Lower(tok)
                          /\ \A m \in 1..Len(result[k][n]) :
                                result[k][n][m] \notin Whitespace

\* A call returned on a text where a delimited token is followed by a space
\* and an annotation word, and the token is in the list of its package.
C8_Witness ==
    /\ outcome = "returned"
    /\ \E o \in DelimitedTokens(dumpsys_text) :
          /\ o[3] < Len(dumpsys_text)
          /\ dumpsys_text[o[3]] = " "
          /\ dumpsys_text[o[3] + 1] \in IdentChars
          /\ \A k \in (o[3] + 1)..Len(dumpsys_text) : dumpsys_text[k] # "/"
          /\ SubSeq(dumpsys_text, o[1], o[2] - 1) \in DOMAIN result
          /\ SubSeq(dumpsys_text, o[1], o[3] - 1) \in ResultTokens

\* Position i of t lies inside a brace group: a "{" before it with no "}"
\* in between, and a "}" at or after it.
InBraces(t, i) ==
    /\ \E b \in 1..(i - 1) :
          t[b] = "{" /\ \A k \in b..(i - 1) : t[k] # "}"
    /\ \E e \in i..Len(t) : t[e] = "}"

\* The delimited tokens of t that lie inside a brace group.
BracedTokens(t) == { o \in DelimitedTokens(t) : InBraces(t, o[1]) }

\* The braced tokens of the form p/.Outer$Inner, Outer and Inner of
\* letters, digits and "_".
NestedTokens(t) ==
    { o \in BracedTokens(t) :
        /\ t[o[2] + 1] = "."
        /\ \E d \in (o[2] + 3)..(o[3] - 2) :
              /\ t[d] = "$"
              /\ \A k \in ((o[2] + 2)..(o[3] - 1)) \ { d } : t[k] \in IdentChars }

\* The original statement of C9: for every token p/.Outer$Inner inside a
\* brace group, the list of p holds the full token, and it holds every other
\* token of package p that lies inside a brace group.
C9_NestedKeptUnderKey ==
    outcome = "returned" =>
        \A o \in NestedTokens(dumpsys_text) :
            LET p == SubSeq(dumpsys_text, o[1], o[2] - 1)
            IN  /\ p \in DOMAIN result
                /\ \A q \in BracedTokens(dumpsys_text) :
                      SubSeq(dumpsys_text, q[1], q[2] - 1) = p =>
                          SubSeq(dumpsys_text, q[1], q[3] - 1)
                              \in Range(result[p])

\* C9, amended: for every token p/.Outer$Inner inside a brace group, the
\* mapping holds a token equal to the full token ignoring case, "$Inner"
\* included, and likewise for every other token of package p inside a brace
\* group; each is in the list of a key equal to p ignoring case (the token
\* and the key are the ones of the text unless an earlier match differs
\* from them in letter case only).
C9_NestedKeptWhole ==
    outcome = "returned" =>
        \A o \in NestedTokens(dumpsys_text) :
            \A q \in BracedTokens(dumpsys_text) :
                SubSeq(dumpsys_text, q[1], q[2] - 1)
                        = SubSeq(dumpsys_text, o[1], o[2] - 1) =>
                    \E k \in DOMAIN result :
                        /\ Lower(k) = Lower(SubSeq(dumpsys_text, q[1], q[2] - 1))
                        /\ \E n \in 1..Len(result[k]) :
                              Lower(result[k][n])
                                  = Lower(SubSeq(dumpsys_text, q[1], q[3] - 1))

\* A call returned on a text with a token p/.Outer$Inner in one brace group
\* and another token of p in another brace group, both in the list of p.
C9_Witness ==
    /\ outcome = "returned"
    /\ \E o \in NestedTokens(dumpsys_text) :
          \E q \in BracedTokens(dumpsys_text) :
              LET p == SubSeq(dumpsys_text, o[1], o[2] - 1)
              IN  /\ q[3] < o[1]
                  /\ \E k \in q[3]..(o[1] - 1) : dumpsys_text[k] = "}"
                  /\ SubSeq(dumpsys_text, q[1], q[2] - 1) = p
                  /\ p \in DOMAIN result
                  /\ SubSeq(dumpsys_text, o[1], o[3] - 1) \in Range(result[p])
                  /\ SubSeq(dumpsys_text, q[1], q[3] - 1) \in Range(result[p])
                  /\ Len(result[p]) = 2

\* C10: every token of the returned mapping occurs in the input text as a
\* contiguous substring, in the letter case it has in the mapping, and holds
\* no whitespace; so every key occurs in the text right before a "/" and a
\* line without "/" yields no key.
C10_TokensOccurInText ==
    /\ \A tok \in ResultTokens :
          /\ OccursIn(tok, dumpsys_text)
          /\ \A i \in 1..Len(tok) : tok[i] \notin Whitespace
    /\ \A k \in DOMAIN result : OccursIn(k \o << "/" >>, dumpsys_text)

\* A call returned a token with an upper-case letter from a text that holds
\* more than the token, among it a word without "/" set off by a space.
C10_Witness ==
    /\ outcome = "returned"
    /\ \E tok \in ResultTokens :
          /\ tok # Lower(tok)
          /\ Len(tok) < Len(dumpsys_text)
    /\ \E i \in 1..(Len(dumpsys_text) - 1) :
          /\ dumpsys_text[i] = " "
          /\ \A k \in (i + 1)..Len(dumpsys_text) :
                dumpsys_text[k] \in IdentChars

\* The occurrences of component tokens in t: the tokens the four patterns
\* match that hold a letter after the "/", as <<start, end>>.
Occurrences(t) ==
    { sp \in Range(SpansA(t, 1)) \cup Range(SpansB(t, 1))
               \cup Range(SpansC(t, 1)) \cup Range(SpansD(t, 1)) :
         \E i \in 1..Len(AfterSlash(Slice(t, sp[1], sp[2]))) :
            AfterSlash(Slice(t, sp[1], sp[2]))[i] \in Letters }

\* The occurrences of O that equal the token k when case is ignored.
CasingsOf(t, O, k) == { sp \in O : Lower(Slice(t, sp[1], sp[2])) = k }

\* The tokens that occur in t in several casings, in lower case.
MultiCaseKeys(t) ==
    { Lower(Slice(t, sp[1], sp[2])) : sp \in
        { o \in Occurrences(t) :
            \E o2 \in Occurrences(t) :
               /\ Lower(Slice(t, o2[1], o2[2])) = Lower(Slice(t, o[1], o[2]))
               /\ Slice(t, o2[1], o2[2]) # Slice(t, o[1], o[2]) } }

\* The occurrence of the non-empty set O that starts first in the text.
FirstInText(t, O) ==
    LET sp == CHOOSE o \in O : \A o2 \in O : o[1] <= o2[1]
    IN  Slice(t, sp[1], sp[2])

\* The occurrence of token k that the scan reaches first: the first in the
\* text among those the bare pattern matches, else among those the braced
\* pattern matches, else the labelled pattern, else the fallback pattern.
FirstInScan(t, k) ==
    LET a == CasingsOf(t, Range(SpansA(t, 1)), k)
        b == CasingsOf(t, Range(SpansB(t, 1)), k)
        c == CasingsOf(t, Range(SpansC(t, 1)), k)
        d == CasingsOf(t, Range(SpansD(t, 1)), k)
    IN  FirstInText(t, IF a # {} THEN a ELSE IF b # {} THEN b
                       ELSE IF c # {} THEN c ELSE d)

\* The result tokens that equal k when case is ignored.
KeptOf(k) == { tok \in ResultTokens : Lower(tok) = k }

\* C11, as stated: when the text holds one component token in several
\* casings, the result holds exactly one of them, with the casing of the
\* occurrence that comes first in the text.
C11_FirstInTextKept ==
    (outcome = "returned" /\ dumpsys_text # None)
        => \A k \in MultiCaseKeys(dumpsys_text) :
              KeptOf(k) = { FirstInText(dumpsys_text,
                              CasingsOf(dumpsys_text,
                                        Occurrences(dumpsys_text), k)) }

\* C11, amended: when the text holds one component token in several casings,
\* the result holds exactly one of them, with the casing of the occurrence
\* the scan reaches first (bare pattern's matches in text order, then the
\* braced, labelled and fallback patterns'); this is the first occurrence
\* in the text whenever the token starts with a letter, a digit or "_".
C11_FirstInScanKept ==
    (outcome = "returned" /\ dumpsys_text # None)
        => \A k \in MultiCaseKeys(dumpsys_text) :
              /\ KeptOf(k) = { FirstInScan(dumpsys_text, k) }
              /\ k[1] \in IdentChars =>
                    KeptOf(k) = { FirstInText(dumpsys_text,
                                    CasingsOf(dumpsys_text,
                                              Occurrences(dumpsys_text), k)) }

\* A call returned on a text where a token occurs in several casings and the
\* occurrence the scan reaches first is not the first one in the text.
C11_Witness ==
    /\ outcome = "returned"
    /\ dumpsys_text # None
    /\ \E k \in MultiCaseKeys(dumpsys_text) :
          FirstInScan(dumpsys_text, k) #
             FirstInText(dumpsys_text,
                         CasingsOf(dumpsys_text, Occurrences(dumpsys_text), k))

\* The part of tok left of its first "/".
BeforeSlash(tok) ==
    SubSeq(tok, 1, (CHOOSE i \in 1..Len(tok) :
                       tok[i] = "/" /\ \A k \in 1..(i - 1) : tok[k] # "/") - 1)

\* p is one or more non-empty segments of letters, digits and "_", joined
\* by single dots.
IsDottedIdentifier(p) ==
    /\ p # <<>>
    /\ \A i \in 1..Len(p) : p[i] \in IdentChars \cup { "." }
    /\ p[1] # "."
    /\ p[Len(p)] # "."
    /\ \A i \in 1..(Len(p) - 1) : ~(p[i] = "." /\ p[i + 1] = ".")

\* c is made only of letters, digits, "_", "." and "$".
IsClassPart(c) == \A i \in 1..Len(c) : c[i] \in IdentChars \cup { ".", "$" }

\* C12, as stated: the package part of every token of the result is a
\* dot-separated identifier (non-empty segments of letters, digits and "_"
\* joined by single dots) and its class part is made only of letters,
\* digits, "_", "." and "$".
C12_PackageDottedIdentifier ==
    outcome = "returned"
        => \A tok \in ResultTokens :
              /\ IsDottedIdentifier(BeforeSlash(tok))
              /\ IsClassPart(AfterSlash(tok))

\* C12, amended: the package part of every token of the result is non-empty
\* and made only of letters, digits, "_" and "." (it may start or end with a
\* dot and hold dots in a row); its class part is made only of letters,
\* digits, "_", "." and "$".
C12_PackageCharacters ==
    outcome = "returned"
        => \A tok \in ResultTokens :
              /\ BeforeSlash(tok) # <<>>
              /\ \A i \in 1..Len(BeforeSlash(tok)) :
                    BeforeSlash(tok)[i] \in IdentChars \cup { "." }
              /\ IsClassPart(AfterSlash(tok))

\* A call returned a token whose package part starts with a dot, and whose
\* class part holds a "$".
C12_Witness ==
    /\ outcome = "returned"
    /\ \E tok \in ResultTokens : BeforeSlash(tok)[1] = "."
    /\ \E tok \in ResultTokens :
          \E i \in 1..Len(AfterSlash(tok)) : AfterSlash(tok)[i] = "$"

\* Does tok end with ":" and one or more digits?
EndsWithNumSuffix(tok) ==
    \E j \in 1..(Len(tok) - 1) :
       /\ tok[j] = ":"
       /\ \A k \in (j + 1)..Len(tok) : tok[k] \in Digits

\* t is a token p/c followed by the ":" at j and by digits up to its end: p
\* of letters, digits, "_" and ".", starting with a letter, digit or "_"; c
\* of letters, digits, "_", "." and "$", holding a letter and ending with a
\* letter, digit or "_".
IsSuffixedToken(t, j) ==
    /\ 3 < j /\ j < Len(t)
    /\ t[j] = ":"
    /\ \A k \in (j + 1)..Len(t) : t[k] \in Digits
    /\ \E s \in 2..(j - 2) :
          /\ t[s] = "/"
          /\ t[1] \in IdentChars
          /\ \A k \in 1..(s - 1) : t[k] \in IdentChars \cup { "." }
          /\ \A k \in (s + 1)..(j - 1) : t[k] \in IdentChars \cup { ".", "$" }
          /\ t[j - 1] \in IdentChars
          /\ \E k \in (s + 1)..(j - 1) : t[k] \in Letters

\* C13: no token of the result ends with ";", "," or ")", none ends with
\* ":" followed by digits, and a text made of a token followed by ":" and
\* digits (such as com.example/.SVC:123) yields that token, whole and alone.
C13_SuffixesStripped ==
    (outcome = "returned" /\ dumpsys_text # None)
        => /\ \A tok \in ResultTokens :
                 /\ tok[Len(tok)] \notin { ";", ",", ")" }
                 /\ ~EndsWithNumSuffix(tok)
           /\ \A j \in 1..Len(dumpsys_text) :
                 IsSuffixedToken(dumpsys_text, j)
                    => ResultTokens = { SubSeq(dumpsys_text, 1, j - 1) }

\* A call returned on a token that ends with a digit and is followed by ":"
\* and digits.
C13_Witness ==
    /\ outcome = "returned"
    /\ dumpsys_text # None
    /\ \E j \in 1..Len(dumpsys_text) :
          /\ IsSuffixedToken(dumpsys_text, j)
          /\ dumpsys_text[j - 1] \in Digits
    /\ ResultTokens # {}

\* C14: whatever the interleaving of concurrent invocations, each returns
\* the mapping a sequential call on its argument returns, and the locals of
\* a caller that has not called yet are untouched by the others.
C14_ConcurrentAsSequential ==
    /\ \A th \in DOMAIN pc :
          pc[th] = "returned" => returns[th] = Extract(args[th])
    /\ \A th \in DOMAIN pc :
          pc[th] = "call" => frames[th] = NoLocals

\* Two callers returned non-empty mappings for different texts, each
\* overlapped by the other.
C14_Witness ==
    /\ pc # <<>>
    /\ \E th, o \in DOMAIN pc :
          /\ pc[th] = "returned" /\ pc[o] = "returned"
          /\ args[th] # args[o]
          /\ overlapped[th] /\ overlapped[o]
          /\ returns[th] # EmptyMapping /\ returns[o] # EmptyMapping

\* The commands of sw_cmds named cmd.
CommandsNamed(cmd) == { k \in 1..Len(sw_cmds) : sw_cmds[k].cmd = cmd }

\* The text a completed command of sw_cmds gave: its stdout, or its stderr
\* when its stdout is empty.
TextOf(c) == IF c.stdout # <<>> THEN c.stdout ELSE c.stderr

\* Is the text s empty or made of whitespace only?
IsBlank(s) == \A i \in 1..Len(s) : s[i] \in { " ", "\n", "\t", "\r" }

\* C15: run starts 'service list' if and only if the primary command
\* completed with a text (stdout, or stderr when stdout is empty) that is
\* empty or whitespace only; once the commands have completed the extractor
\* is called exactly once, never while a command runs or before one starts,
\* on the text of the fallback when it ran and of the primary otherwise.
C15_FallbackIffBlank ==
    sw_pc # "none" =>
       /\ Cardinality(CommandsNamed("service list")) <= 1
       /\ Cardinality(CommandsNamed("dumpsys activity services")) <= 1
       /\ (CommandsNamed("service list") # {}) <=>
             /\ sw_cmds # <<>>
             /\ sw_cmds[1].cmd = "dumpsys activity services"
             /\ sw_cmds[1].state = "completed"
             /\ IsBlank(TextOf(sw_cmds[1]))
       /\ Len(sw_calls) <= 1
       /\ sw_calls # <<>> =>
             /\ sw_pc \in { "emit", "done" }
             /\ \A k \in 1..Len(sw_cmds) : sw_cmds[k].state = "completed"
             /\ sw_calls[1] = TextOf(sw_cmds[Len(sw_cmds)])
       /\ (/\ sw_pc = "done"
           /\ sw_cmds # <<>>
           /\ \A k \in 1..Len(sw_cmds) : sw_cmds[k].state = "completed")
             => Len(sw_calls) = 1

\* A run ended after the fallback, started on a primary stdout of whitespace
\* only, gave a text with a token.
C15_Witness ==
    /\ sw_pc = "done"
    /\ Len(sw_cmds) = 2
    /\ sw_cmds[1].stdout # <<>>
    /\ sw_cmds[2].state = "completed"
    /\ Len(sw_calls) = 1
    /\ sw_calls[1] # <<>>
    /\ sw_emitted # << EmptyMapping >>

\* C16: a run emits result exactly once on every path: the empty mapping
\* when the adb path is unset or a command raised, the mapping extracted
\* from the text obtained otherwise; never twice, never before the run
\* ends, and never a run that ended without a result.
C16_ServicesResultOnce ==
    sw_pc # "none" =>
       /\ Len(sw_emitted) <= 1
       /\ sw_emitted # <<>> => sw_pc = "done"
       /\ sw_pc = "done" =>
             /\ Len(sw_emitted) = 1
             /\ sw_emitted[1] =
                   IF sw_adb = <<>> THEN EmptyMapping
                   ELSE IF \E k \in 1..Len(sw_cmds) : sw_cmds[k].state = "raised"
                   THEN EmptyMapping
                   ELSE Extract(TextOf(sw_cmds[Len(sw_cmds)]))

\* A run ended after the fallback command raised.
C16_Witness ==
    /\ sw_pc = "done"
    /\ Len(sw_cmds) = 2
    /\ sw_cmds[2].state = "raised"
    /\ sw_emitted = << EmptyMapping >>

\* stop() was called before run() ended.
StoppedWhileRunning ==
    sc_stopped_at # <<>> /\ sc_stopped_at[1].pc # "done"

\* Has the message msg been logged by the scan?
ScanLogged(msg) == \E k \in 1..Len(sc_log) : sc_log[k] = msg

\* What C17 says of the dumps and of the steps: after stop() no dump is
\* started for a later package, and the step in progress is carried out (a
\* dump that was running is ended and its package reported).
NoDumpAfterStop ==
    /\ sc_stop => Len(sc_dumps) = sc_stopped_at[1].dumps
    /\ sc_pc \in { "loop", "done" } =>
          /\ \A k \in 1..Len(sc_dumps) : sc_dumps[k].state # "running"
          /\ Len(sc_progress) = Len(sc_dumps)

\* C17, as stated: once stop() has been called no dump is started for a
\* package after the current one, the step in progress is not interrupted,
\* and the run logs 'Scan cancelled.' and emits result once, with the
\* matches gathered so far.
C17_CancelLogged ==
    sc_pc # "none" =>
       /\ NoDumpAfterStop
       /\ (sc_pc = "done" /\ StoppedWhileRunning) =>
             /\ ScanLogged("Scan cancelled.")
             /\ sc_emitted = << sc_results >>

\* C17, amended: as above, but 'Scan cancelled.' is logged exactly when a
\* listed package had not been started at the time of stop(); a stop()
\* that comes while the last package is processed, or when the listing is
\* empty or raises, leaves no such line.
C17_CancelLoggedIfPackageLeft ==
    sc_pc # "none" =>
       /\ NoDumpAfterStop
       /\ ScanLogged("Scan cancelled.") => sc_stop
       /\ (sc_pc = "done" /\ StoppedWhileRunning) =>
             /\ ScanLogged("Scan cancelled.")
                   <=> sc_stopped_at[1].dumps < Len(sc_lines)
             /\ sc_emitted = << sc_results >>

\* A run ended after stop() came during the dump of the first of two
\* packages: that package is reported, the second is not dumped.
C17_Witness ==
    /\ sc_pc = "done"
    /\ sc_stopped_at # <<>>
    /\ sc_stopped_at[1].pc = "dump"
    /\ Len(sc_lines) = 2
    /\ Len(sc_dumps) = 1
    /\ ScanLogged("Scan cancelled.")
    /\ sc_emitted # << EmptyMapping >>

\* C18: a run emits result exactly once, when it ends: after the last
\* package, after a cancellation, and after the listing command raised, in
\* which case 'Scan error' is logged and the results gathered so far (none)
\* are emitted.
C18_ScanResultOnce ==
    sc_pc # "none" =>
       /\ Len(sc_emitted) <= 1
       /\ sc_emitted # <<>> => sc_pc = "done"
       /\ sc_pc = "done" => sc_emitted = << sc_results >>
       /\ ScanLogged("Scan error") =>
             /\ sc_pc = "done"
             /\ sc_dumps = <<>>
             /\ sc_emitted = << EmptyMapping >>
             /\ sc_log[Len(sc_log)] = "Scan error"

\* A run ended after the listing command raised.
C18_Witness ==
    /\ sc_pc = "done"
    /\ ScanLogged("Scan error")
    /\ Len(sc_emitted) = 1

\* The identifiers that occur, case ignored, in the text s.
Hits(s) ==
    { AdIdentifiers[k] : k \in { j \in 1..Len(AdIdentifiers) :
                                   OccursIn(Lower(AdIdentifiers[j]), Lower(s)) } }

\* The identifiers matched for the k-th package: those of the output of its
\* dump and, when there is none (the dump raised or showed none), those of
\* its listing line and of its name.
HitsOfPackage(k) ==
    LET fromDump == IF sc_dumps[k].state = "completed"
                    THEN Hits(TextOf(sc_dumps[k])) ELSE {}
    IN  IF fromDump # {} THEN fromDump
        ELSE Hits(sc_lines[k]) \cup Hits(sc_dumps[k].pkg)

\* The packages the scan is done with and matched.
MatchedPackages ==
    { k \in 1..Len(sc_dumps) :
         sc_dumps[k].state # "running" /\ HitsOfPackage(k) # {} }

\* C19: between two packages and at the end, a package is in the results
\* if and only if an identifier matched it, and its list is the sorted list
\* of the configured identifiers matched: those found, case ignored, in the
\* output of its dump, or, when the dump gave none or failed, in its listing
\* line and name; a dump that fails does not end the scan.
C19_ScanResultContent ==
    sc_pc \in { "loop", "done" } =>
       /\ DOMAIN sc_results = { sc_dumps[k].pkg : k \in MatchedPackages }
       /\ \A k \in MatchedPackages :
             (\A j \in MatchedPackages :
                 sc_dumps[j].pkg = sc_dumps[k].pkg => j <= k)
                => LET list == sc_results[sc_dumps[k].pkg]
                   IN  /\ Range(list) = HitsOfPackage(k)
                       /\ \A i \in 1..(Len(list) - 1) :
                             StrLess(list[i], list[i + 1])
       /\ (sc_pc = "done" /\ ~sc_stop /\ ~ScanLogged("Scan error"))
             => Len(sc_dumps) = Len(sc_lines)

\* A run ended with two packages in the results: one whose dump raised,
\* matched by its listing line, and one matched by its dump alone for two
\* identifiers.
C19_Witness ==
    /\ sc_pc = "done"
    /\ Len(sc_emitted) = 1
    /\ \E k, j \in MatchedPackages :
          /\ sc_dumps[k].state = "raised"
          /\ sc_dumps[j].state = "completed"
          /\ Cardinality(Hits(TextOf(sc_dumps[j]))) = 2
          /\ sc_dumps[k].pkg # sc_dumps[j].pkg

\* The calls of remove_app that are about to return, as the thread, the
\* commands and the results list of res.
Returning ==
    { [ thread |-> th,
        cmds |-> CandidateCmds(tk_threads[th].selected[tk_threads[th].at]),
        results |-> tk_threads[th].results ] :
         th \in { k \in 1..Len(tk_threads) :
                     /\ tk_threads[k].pc = "remove_app"
                     /\ tk_threads[k].left = <<>> } }

\* What C20 says of remove_app and of Preview Uninstall: a call with
\* dry_run true runs no command and returns both candidate commands with an
\* empty results list, a call with dry_run false returns the output of each
\* command it ran, and the preview handler always passes dry_run true and
\* runs no command.
DryRunCallsRunNothing ==
    /\ \A r \in Returning :
          LET t == tk_threads[r.thread] IN
          /\ Len(r.cmds) = 2
          /\ t.dry_run => r.results = <<>>
          /\ ~t.dry_run => Len(r.results) \in { 1, 2 }
          /\ t.kind = "preview" => t.dry_run
    /\ \A e \in tk_issued : ~e.argument /\ e.kind = "execute"
    /\ \A th \in 1..Len(tk_threads) :
          (tk_threads[th].kind = "preview" \/ tk_threads[th].dry_run)
             => tk_threads[th].results = <<>>

\* C20, as stated: remove_app with dry_run true runs nothing, Preview
\* Uninstall never runs a command, and a command is issued only by Execute
\* Uninstall and only while the dry-run setting is switched off; none is
\* while the setting is still the default.
C20_IssuedOnlyWhileOff ==
    tk_threads # <<>> =>
       /\ DryRunCallsRunNothing
       /\ \A e \in tk_issued : ~e.setting
       /\ ~tk_toggled => tk_issued = {}

\* C20, amended: the same, but the setting that counts is the one read when
\* remove_app was called for the package (once per package); a command can
\* be issued after the checkbox has been ticked again during that call.
C20_IssuedOnlyIfOffAtCall ==
    tk_threads # <<>> =>
       /\ DryRunCallsRunNothing
       /\ ~tk_toggled => tk_issued = {}

\* An execution that found the setting switched off returns from
\* remove_app after running both commands, and a preview has handled a
\* package without any.
C20_Witness ==
    /\ tk_preview # <<>>
    /\ \E r \in Returning :
          /\ tk_threads[r.thread].kind = "execute"
          /\ Len(r.results) = 2
    /\ \E e \in tk_issued : e.cmd = "adb shell pm uninstall"

\* The matches of the scan without the bare pattern: the braced, labelled
\* and fallback patterns only.
ScanPatternsWithoutA(t) ==
    ScanTokens(FindAllB(t, 1)) \o ScanTokens(FindAllC(t, 1))
        \o ScanTokens(FindAllD(t, 1))

\* The mapping lines 57-87 make of the list of matches ms.
MappingOf(ms) ==
    SortLists(GroupByPackage(
        PostProcess(ms, 1, NewCleaned, NewSeenLower).cleaned))

\* The tokens of the mapping m, in lower case.
LowerTokensOf(m) == UNION { { Lower(tok) : tok \in Range(m[k]) } : k \in DOMAIN m }

\* Every match of the bare pattern is a match of the fallback pattern, at
\* the same place of the text.
BareWithinFallback(t) == Range(SpansA(t, 1)) \subseteq Range(SpansD(t, 1))

\* C22, as stated: every token the bare pattern A matches, the fallback
\* pattern D matches too, and the mapping returned is the one the scan
\* without pattern A would give.
C22_MappingWithoutBareScan ==
    (outcome = "returned" /\ dumpsys_text # None)
        => /\ BareWithinFallback(dumpsys_text)
           /\ result = MappingOf(ScanPatternsWithoutA(dumpsys_text))

\* C22, amended: every token the bare pattern A matches, the fallback
\* pattern D matches too, and the scan without pattern A would give the
\* same tokens when letter case is ignored (the casing kept for a token,
\* and with it the key it is filed under, may differ).
C22_TokensWithoutBareScan ==
    (outcome = "returned" /\ dumpsys_text # None)
        => /\ BareWithinFallback(dumpsys_text)
           /\ LowerTokensOf(result) =
                 LowerTokensOf(MappingOf(ScanPatternsWithoutA(dumpsys_text)))

\* A call returned on a text where the bare pattern matched and the scan
\* without it would keep another casing of a token.
C22_Witness ==
    /\ outcome = "returned"
    /\ dumpsys_text # None
    /\ SpansA(dumpsys_text, 1) # <<>>
    /\ result # MappingOf(ScanPatternsWithoutA(dumpsys_text))

\* The component tokens of t that lie inside a brace group, as
\* <<start, end>>.
TokensInBraces(t) == { sp \in Range(SpansA(t, 1)) : InBraces(t, sp[1]) }

\* C23: the braced pattern B by itself yields every component token that
\* lies inside a brace group, not only the first token of the group.
C23_BracedScanYieldsAll ==
    (outcome = "returned" /\ dumpsys_text # None)
        => TokensInBraces(dumpsys_text)
              \subseteq Range(SpansB(dumpsys_text, 1))

\* The token that follows a label written at position i of t in any letter
\* case, with optional whitespace in between: the set of its
\* <<start, end>>, empty if there is no label or no token.
LabelledAt(t, i) ==
    { sp \in { << RunEnd(t, i + Len(Labels[k]), Whitespace),
                  RunEnd(t, RunEnd(t, RunEnd(t, i + Len(Labels[k]),
                                              Whitespace), PkgChars) + 1,
                         ClsChars) >> :
                 k \in { n \in 1..Len(Labels) :
                           /\ i + Len(Labels[n]) - 1 <= Len(t)
                           /\ Lower(SubSeq(t, i, i + Len(Labels[n]) - 1))
                                 = Labels[n] } } :
        LET p == RunEnd(t, sp[1], PkgChars)
        IN  p > sp[1] /\ p <= Len(t) /\ t[p] = "/" /\ sp[2] > p + 1 }

\* The labelled tokens of t, wherever the label stands.
LabelledAnywhere(t) == UNION { LabelledAt(t, i) : i \in 1..Len(t) }

\* The labelled tokens of t from position i on whose label is not part of
\* the token of a label before it.
RECURSIVE LabelledFrom(_, _)
LabelledFrom(t, i) ==
    IF i > Len(t) THEN {}
    ELSE IF LabelledAt(t, i) = {} THEN LabelledFrom(t, i + 1)
    ELSE LabelledAt(t, i)
            \cup LabelledFrom(t, (CHOOSE sp \in LabelledAt(t, i) : TRUE)[2])

\* The token at sp is a component token: a letter follows its "/".
HasLetterAfterSlash(t, sp) ==
    \E i \in 1..Len(AfterSlash(Slice(t, sp[1], sp[2]))) :
       AfterSlash(Slice(t, sp[1], sp[2]))[i] \in Letters

\* C24, as stated: a component token that follows one of the three labels,
\* the label in any letter case and whitespace optional, is in the result
\* with its own casing.
C24_LabelledTokenKept ==
    (outcome = "returned" /\ dumpsys_text # None)
        => \A sp \in LabelledAnywhere(dumpsys_text) :
              HasLetterAfterSlash(dumpsys_text, sp)
                 => Slice(dumpsys_text, sp[1], sp[2]) \in ResultTokens

\* C24, amended: a component token that follows one of the three labels,
\* the label in any letter case and not itself part of the token of a label
\* before it, whitespace optional, is in the result: with its own casing,
\* unless the text holds the same token in another letter case, and then
\* in one of the casings of the text.
C24_LabelledTokenKeptOnce ==
    (outcome = "returned" /\ dumpsys_text # None)
        => \A sp \in LabelledFrom(dumpsys_text, 1) :
              HasLetterAfterSlash(dumpsys_text, sp)
                 => LET tok == Slice(dumpsys_text, sp[1], sp[2])
                    IN  \/ tok \in ResultTokens
                        \/ /\ Lower(tok) \in MultiCaseKeys(dumpsys_text)
                           /\ KeptOf(Lower(tok)) # {}

\* A call returned on a text where a token that only a label introduces
\* follows a label not written as in the pattern, after whitespace.
C24_Witness ==
    /\ outcome = "returned"
    /\ dumpsys_text # None
    /\ \E i \in 1..Len(dumpsys_text) :
          \E sp \in LabelledAt(dumpsys_text, i) :
             /\ sp \in LabelledFrom(dumpsys_text, 1)
             /\ ~\E k \in 1..Len(Labels) : LabelAtExact(dumpsys_text, i, Labels[k])
             /\ sp \notin Range(SpansA(dumpsys_text, 1))
             /\ Slice(dumpsys_text, sp[1], sp[2]) \in ResultTokens

\* The matches of the four patterns in t, as <<start, end>>.
AllSpans(t) ==
    Range(SpansA(t, 1)) \cup Range(SpansB(t, 1))
       \cup Range(SpansC(t, 1)) \cup Range(SpansD(t, 1))

\* The result tokens that come from a match beginning at position s of t.
TokensBeginningAt(t, s) ==
    { tok \in ResultTokens :
        \E sp \in AllSpans(t) :
           /\ sp[1] = s
           /\ ScanToken(Slice(t, sp[1], sp[2])) # <<>>
           /\ CleanToken(ScanToken(Slice(t, sp[1], sp[2]))[1]) = tok }

\* C25: one occurrence yields one token; for each position of the text, at
\* most one result token comes from a match that begins there.
C25_OneTokenPerOccurrence ==
    (outcome = "returned" /\ dumpsys_text # None)
        => \A s \in 1..Len(dumpsys_text) :
              Cardinality(TokensBeginningAt(dumpsys_text, s)) <= 1

\* C21: an 'am stopservice' command is run only with an adb path set, the
\* component of the current row of the services table as its target and
\* the answer Yes to the confirmation; and once a command was run,
\* whatever its end, the handler does not return before it has called
\* refresh_services.
C21_StopOnlyWhenConfirmed ==
    ui_pc # "none" =>
       /\ \A e \in ui_issued :
             /\ e.adb # <<>>
             /\ e.row \in 1..Len(e.rows)
             /\ e.component = Strip(e.rows[e.row][2])
             /\ e.confirm = "Yes"
       /\ ui_adb = <<>> => ui_issued = {}
       /\ ui_pc \in { "idle", "confirm" } => ~ui_owed
       /\ ui_owed => ui_issued # {}

\* A stop command was run, its message box closed, and the query that
\* refresh_services started is under way.
C21_Witness ==
    /\ ui_issued # {}
    /\ ui_pc = "idle"
    /\ ~ui_owed
    /\ ui_querying
    /\ sw_pc # "none"

\* While a ServicesWorker queries, both buttons are disabled and the busy
\* indicator is visible, and no worker was ever started during the query
\* of another.
OneQueryAtATime ==
    /\ ui_querying => ~ui_refresh_on /\ ~ui_stop_on /\ ui_busy /\ ui_worker
    /\ ~ui_overlapped

\* The query has ended: both buttons are enabled again and the indicator
\* is hidden.
QueryEnded == ~ui_querying /\ ui_refresh_on /\ ui_stop_on /\ ~ui_busy

\* C26: at most one ServicesWorker is in flight; from the start of a worker
\* by refresh_services until _services_done runs, both buttons are disabled
\* and the busy indicator is visible; and every query that was started
\* leads to both buttons enabled and the indicator hidden.
C26_OneWorkerInFlight ==
    /\ [](ui_pc # "none" => OneQueryAtATime)
    /\ (ui_querying ~> QueryEnded)

\* A second query is under way, started after the first one ended.
C26_Witness ==
    /\ ui_querying
    /\ ui_issued # {}
    /\ sw_pc = "fallback"
    /\ ~ui_refresh_on

\* C27: at most one ScanAdsWorker runs at any time, and while a worker runs
\* that has not been stopped, "Start Scan" is disabled, "Stop" is enabled
\* and self.scan_worker refers to it.
RunningScans == { w \in 1..Len(app_workers) : app_workers[w].pc # "done" }

C27_OneScanAtATime ==
    /\ Cardinality(RunningScans) <= 1
    /\ \A w \in RunningScans :
          ~app_workers[w].stop =>
              /\ ~app_scan_on
              /\ app_stop_on
              /\ app_scan_worker = w

\* C28: when the result of a worker that _stop_scan has stopped reaches the
\* GUI thread, the status, the progress bar, the flags of the rows and
\* last_scan_results stay as they are.
StoppedResultArrives ==
    /\ app_queue # <<>>
    /\ Head(app_queue).kind = "result"
    /\ app_workers[Head(app_queue).worker].stop
    /\ app_queue' = Tail(app_queue)

C28_StoppedResultIgnored ==
    [][ StoppedResultArrives =>
          UNCHANGED << app_status, app_progress, app_flags, app_flagged,
                       app_last >> ]_vars

\* The output holds 'Success' or 'success'.
SaysSuccess(out) ==
    \E word \in { << "S", "u", "c", "c", "e", "s", "s" >>,
                   << "s", "u", "c", "c", "e", "s", "s" >> } :
        Contains(out, word)

\* A call of remove_app with dry_run false about to return has one or two
\* results, and none after a result that says success.
ReturnsOneOrTwoResults ==
    \A r \in Returning :
        ~tk_threads[r.thread].dry_run =>
            /\ Len(r.results) \in { 1, 2 }
            /\ \A i \in 1..(Len(r.results) - 1) : ~SaysSuccess(r.results[i])

\* A step of remove_app in thread th that appends a result: it ran the
\* command of the same index, the per-user uninstall first, the full one
\* second and only after a first output that does not say success.
AppendsResultInOrder(th) ==
    LET t == tk_threads[th]
        n == Len(t.results) + 1
    IN  (t.pc = "remove_app" /\ Len(tk_threads'[th].results) > Len(t.results))
          =>
            /\ Len(tk_threads'[th].results) = n
            /\ SubSeq(tk_threads'[th].results, 1, n - 1) = t.results
            /\ n <= 2
            /\ Head(t.left) = CandidateCmds(t.selected[t.at])[n]
            /\ Head(t.left)[1] = IF n = 1
                                 THEN "adb shell pm uninstall --user 0"
                                 ELSE "adb shell pm uninstall"
            /\ n = 2 => ~SaysSuccess(t.results[1])

\* C29: remove_app with dry_run false runs the per-user uninstall first and
\* the full uninstall only if the first output holds neither 'Success' nor
\* 'success'; it stops at the first success, so that results has one or two
\* elements, results[i] being the output of cmds[i].
C29_PerUserUninstallFirst ==
    /\ []ReturnsOneOrTwoResults
    /\ [][\A th \in 1..Len(tk_threads) : AppendsResultInOrder(th)]_vars

\* Two calls about to return: one after a first output 'success' in lower
\* case and nothing else, one after a failure and a second command.
C29_Witness ==
    \E r, q \in Returning :
        /\ r.results = << << "s", "u", "c", "c", "e", "s", "s" >> >>
        /\ Len(q.results) = 2
        /\ ~SaysSuccess(q.results[1])

\* Every row of every list.
AllRows == UNION { { tr_rows[t][i] : i \in 1..Len(tr_rows[t]) } : t \in Trees }

\* The first three characters of the text a row shows.
PrefixOf(row) == SubSeq(row.values[1], 1, 3)

\* The row shows the check mark exactly when its tag is checked and the
\* blank exactly when it is unchecked, the name read from it is the name
\* inserted, and two toggles give the row back.
RowConsistent(row) ==
    /\ PrefixOf(row) = << "[", Tick, "]" >> <=> row.tags = << "checked" >>
    /\ PrefixOf(row) = << "[", " ", "]" >> <=> row.tags = << "unchecked" >>
    /\ row.tags \in { << "checked" >>, << "unchecked" >> }
    /\ LET after == AfterFirstBracket(row.values[1])
       IN  LStrip(RStrip(after, Whitespace), Whitespace) = row.name
    /\ ToggleRow(ToggleRow(row)) = row

\* A step of select_by_search or select_ad_db_matches keeps the rows and
\* unchecks none.
OnlyAddsChecks ==
    (SelectBySearch \/ SelectAdDbMatches) =>
        \A t \in Trees :
            /\ Len(tr_rows'[t]) = Len(tr_rows[t])
            /\ \A i \in 1..Len(tr_rows[t]) :
                  /\ tr_rows'[t][i].name = tr_rows[t][i].name
                  /\ IsChecked(tr_rows[t][i]) => IsChecked(tr_rows'[t][i])

\* A step of refresh_app_lists ends with every row unchecked.
RefreshUnchecksAll ==
    RefreshAppLists =>
        \A t \in Trees : \A i \in 1..Len(tr_rows'[t]) :
            tr_rows'[t][i].tags = << "unchecked" >>

\* C30: after any sequence of row toggles, select-all and deselect-all,
\* select-by-search, AD_DB selection and refreshes, every row shows the
\* check mark exactly when its tag is checked and the blank exactly when it
\* is unchecked, the name read from the row is the name inserted, two
\* toggles of a row restore it, the two selections only add checks and a
\* refresh leaves every row unchecked.
C30_CheckboxesConsistent ==
    /\ [](\A row \in AllRows : RowConsistent(row))
    /\ [][OnlyAddsChecks /\ RefreshUnchecksAll]_vars

\* A list holds the row of the line with a bracket, checked, before the row
\* of B, unchecked, and another list holds a checked row.
C30_Witness ==
    \E t, u \in Trees :
        /\ t # u
        /\ Len(tr_rows[t]) = 2
        /\ IsChecked(tr_rows[t][1])
        /\ Contains(tr_rows[t][1].name, << "]" >>)
        /\ ~IsChecked(tr_rows[t][2])
        /\ Len(tr_rows[u]) = 1
        /\ IsChecked(tr_rows[u][1])

====
